---- MODULE Spec2Model ----
(***************************************************************************)
(* A model of aerosandbox.modeling.fitting: one invocation of fit_model,   *)
(* statement block by statement block, and the FittedModel it returns.     *)
(* Spec is one invocation; SpecFM adds the callers that use the returned   *)
(* FittedModel; SpecPair runs two invocations interleaved; SpecCaller adds  *)
(* the caller writing to its own data once fit_model has left.             *)
(*                                                                         *)
(* Representation                                                          *)
(*   - a Python dict is a sequence of records [k, v] with distinct keys,   *)
(*     in insertion order (the order .items() iterates in);                *)
(*   - an array-like input is a sequence of rows (a nested list); the      *)
(*     flattened 1-D array is a sequence of integers;                      *)
(*   - None, NaN and "no exception" are records with a flag, so that every *)
(*     value of a variable is comparable with every other;                 *)
(*   - symbolic (CasADi) expressions are records with a tag; Value gives   *)
(*     their numeric value at a point of the solver's search space.        *)
(***************************************************************************)
EXTENDS Integers, Sequences, FiniteSets, TLC

VARIABLES
    inp,              \* the caller's arguments of this invocation
    pc,               \* position of the invocation in fit_model
    x_data,           \* local x_data after flattening
    x_data_is_dict,   \* local discriminator set at lines 249/252
    y_data,           \* local y_data after flattening
    n_datapoints,     \* local n_datapoints
    weights,          \* local weights: <<>> before line 257, else <<array>>
    relevant_inputs,  \* local dict of the series whose length is checked
    opti,             \* the optimization environment of this invocation
    params,           \* local dict: parameter name -> variable handle
    y_model,          \* local y_model: <<>> or <<expression>>
    error,            \* local error: <<>> or <<expression>>
    modelCalls,       \* number of times fit_model has called the Model
    sol,              \* the solution handle: <<>> or <<handle>>
    params_solved,    \* local dict: parameter name -> solved value
    result,           \* the returned FittedModel: <<>> or <<object>>
    exc,              \* the exception that left fit_model, if any
    caller,           \* the caller's argument objects, as they are now
    readers,          \* the callers using the returned FittedModel
    other             \* a second invocation, while it is not the one running

\* the running invocation: its locals and the objects its caller passed
locals == <<inp, pc, x_data, x_data_is_dict, y_data, n_datapoints, weights,
            relevant_inputs, opti, params, y_model, error, modelCalls, sol,
            params_solved, result, exc, caller>>

vars == <<locals, readers, other>>

----------------------------------------------------------------------------
(* Bounds of the model *)

\* largest number of datapoints in a series
MaxN == 2

\* largest data value, weight, parameter guess and solver grid value
MaxVal == 2

----------------------------------------------------------------------------
(* Python values *)

None == [none |-> TRUE, v |-> 0]

Num(n) == [none |-> FALSE, v |-> n]

NaN == [nan |-> TRUE, v |-> 0]

Float(n) == [nan |-> FALSE, v |-> n]

NoExc == [type |-> "", at |-> ""]

Exc(t, where) == [type |-> t, at |-> where]

(* dicts *)

Item(key, val) == [k |-> key, v |-> val]

DictKeys(d) == {d[i].k : i \in DOMAIN d}

DictHas(d, key) == \E i \in DOMAIN d : d[i].k = key

DictGet(d, key) == d[CHOOSE i \in DOMAIN d : d[i].k = key].v

DictSet(d, key, val) ==
    IF DictHas(d, key)
    THEN [i \in DOMAIN d |-> IF d[i].k = key THEN Item(key, val) ELSE d[i]]
    ELSE Append(d, Item(key, val))

RECURSIVE DictUpdate(_, _)
DictUpdate(d, e) ==
    IF e = <<>> THEN d
    ELSE DictUpdate(DictSet(d, Head(e).k, Head(e).v), Tail(e))

(* arithmetic *)

Abs(a) == IF a < 0 THEN -a ELSE a

RECURSIVE GCD(_, _)
GCD(a, b) == IF b = 0 THEN a ELSE GCD(b, a % b)

RECURSIVE SeqSum(_)
SeqSum(s) == IF s = <<>> THEN 0 ELSE Head(s) + SeqSum(Tail(s))

\* a float quotient a / b of nonnegative numbers, as a reduced fraction;
\* 0 / 0 is nan, written <<0, 0>>
Quot(a, b) ==
    IF b = 0 THEN <<0, 0>>
    ELSE LET g == GCD(a, b) IN <<a \div g, b \div g>>

(* aerosandbox.optimization.math *)

length(array) == Len(array)

sum1(x) == SeqSum(x)

----------------------------------------------------------------------------
(* fit_model, lines 238-295: flattening, weights, validation *)

RECURSIVE flatten(_)
flatten(input) ==
    IF input = <<>> THEN <<>> ELSE Head(input) \o flatten(Tail(input))

\* flatten returning views: np.asarray(input).ravel()
SharedViews == {"x_data", "y_data", "weights"}

\* lines 241-242: the arguments whose memory the flattened arrays share.
\* np.array(input) copies its input and .flatten() copies again: none
Shared == {}

\* the elements of a caller's array of floats, as fractions
AsFloats(v) == [i \in DOMAIN v |-> <<v[i], 1>>]

\* the objects the caller passes in the call c: the arguments fit_model could
\* write to.  A supplied array of float weights holds floats
Args(c) ==
    [x_data |-> c.x_data, y_data |-> c.y_data,
     weights |-> IF ~c.weights.none /\ c.weights.dtype = "float"
                 THEN [c.weights EXCEPT !.v = AsFloats(flatten(c.weights.v))]
                 ELSE c.weights,
     parameter_guesses |-> c.parameter_guesses,
     parameter_bounds |-> c.parameter_bounds]

FlattenItems(d) == [i \in DOMAIN d |-> Item(d[i].k, flatten(d[i].v))]

Raise(e) ==
    /\ pc' = "raised"
    /\ exc' = e

\* an environment created ahead of line 300
NewOptiEarly == [created |-> TRUE, variables |-> <<>>, constraints |-> <<>>,
                 objective |-> <<>>, solves |-> 0]

\* lines 244-254
Flatten ==
    /\ pc = "flatten"
    /\ IF inp.x_data.isDict
       THEN /\ x_data' = [isDict |-> TRUE, arr |-> <<>>,
                          items |-> FlattenItems(inp.x_data.items)]
            /\ x_data_is_dict' = TRUE
       ELSE /\ x_data' = [isDict |-> FALSE, arr |-> flatten(inp.x_data.arr),
                          items |-> <<>>]
            /\ x_data_is_dict' = FALSE
    /\ y_data' = flatten(inp.y_data)
    /\ n_datapoints' = length(flatten(inp.y_data))
    /\ pc' = "weights"
    /\ UNCHANGED <<inp, weights, relevant_inputs, opti, params, y_model, error,
                   modelCalls, sol, params_solved, result, exc>>
    /\ UNCHANGED <<caller, readers, other>>

\* line 258: np.ones(n), an array of floats
Ones(n) == [i \in 1..n |-> 1]

\* line 261: weights /= sum1(weights), on an array of floats
Normalized(w) == [i \in DOMAIN w |-> Quot(w[i], sum1(w))]

\* lines 256-261.  np.array keeps the element type of its input, and the
\* in-place true division of an integer array raises a TypeError (the float
\* result cannot be cast back into the integer array).  The division writes
\* into the local array, and so into the caller's array of weights (seen
\* flattened) if the two share their memory.
HandleWeights ==
    /\ pc = "weights"
    /\ IF inp.weights.none
       THEN /\ weights' = <<Normalized(Ones(n_datapoints))>>
            /\ pc' = "check_bounds"
            /\ exc' = exc
       ELSE IF inp.weights.dtype = "int"
       THEN /\ weights' = weights
            /\ Raise(Exc("TypeError", "weights"))
       ELSE /\ weights' = <<Normalized(flatten(inp.weights.v))>>
            /\ pc' = "check_bounds"
            /\ exc' = exc
    /\ caller' = IF "weights" \in Shared /\ ~inp.weights.none
                     /\ inp.weights.dtype = "float"
                  THEN [caller EXCEPT !.weights.v = weights'[1]]
                  ELSE caller
    /\ UNCHANGED <<inp, x_data, x_data_is_dict, y_data, n_datapoints,
                   relevant_inputs, opti, params, y_model, error, modelCalls,
                   sol, params_solved, result>>
    /\ UNCHANGED <<readers, other>>

\* lines 264-265
BoundsOrEmpty(b) == IF b.none THEN <<>> ELSE b.v

\* lines 266-273: the exception the loop over parameter_bounds.items()
\* leaves with, NoExc when it completes
RECURSIVE BoundsCheck(_, _)
BoundsCheck(bounds, guesses) ==
    IF bounds = <<>> THEN NoExc
    ELSE IF ~DictHas(guesses, Head(bounds).k)
         THEN Exc("ValueError", "bounds_key")
    ELSE IF ~(length(Head(bounds).v) = 2)
         THEN Exc("ValueError", "bounds_pair")
    ELSE BoundsCheck(Tail(bounds), guesses)

\* CheckBounds with the environment created before the check
CheckBoundsAfterOpti ==
    /\ pc = "check_bounds"
    /\ LET e == BoundsCheck(BoundsOrEmpty(inp.parameter_bounds),
                            inp.parameter_guesses)
       IN IF e # NoExc THEN Raise(e) /\ opti' = NewOptiEarly
          ELSE /\ pc' = "check_logspace"
               /\ exc' = exc
               /\ opti' = opti
    /\ UNCHANGED <<inp, x_data, x_data_is_dict, y_data, n_datapoints, weights,
                   relevant_inputs, params, y_model, error, modelCalls,
                   sol, params_solved, result>>
    /\ UNCHANGED <<caller, readers, other>>

\* lines 263-273
CheckBounds ==
    /\ pc = "check_bounds"
    /\ LET e == BoundsCheck(BoundsOrEmpty(inp.parameter_bounds),
                            inp.parameter_guesses)
       IN IF e # NoExc THEN Raise(e)
          ELSE /\ pc' = "check_logspace"
               /\ exc' = exc
    /\ UNCHANGED <<inp, x_data, x_data_is_dict, y_data, n_datapoints, weights,
                   relevant_inputs, opti, params, y_model, error, modelCalls,
                   sol, params_solved, result>>
    /\ UNCHANGED <<caller, readers, other>>

\* line 277: np.all(y_data > 0)
AllPositive(y) == \A i \in DOMAIN y : y[i] > 0

\* lines 275-278
CheckLogspace ==
    /\ pc = "check_logspace"
    /\ IF inp.put_residuals_in_logspace /\ ~AllPositive(y_data)
       THEN Raise(Exc("ValueError", "logspace"))
       ELSE /\ pc' = "check_dims"
            /\ exc' = exc
    /\ UNCHANGED <<inp, x_data, x_data_is_dict, y_data, n_datapoints, weights,
                   relevant_inputs, opti, params, y_model, error, modelCalls,
                   sol, params_solved, result>>
    /\ UNCHANGED <<caller, readers, other>>

\* lines 285-287: whether relevant_inputs.update(x_data) raises TypeError,
\* which is what sends the length check down its scalar branch
UpdateRaises(x) == ~x.isDict /\ x.arr # <<>>

\* lines 281-288.  dict.update(x) takes a mapping's items; given an array it
\* iterates it for key/value pairs, which raises TypeError at the first
\* element (a number is no pair) and does nothing for an empty array.
RelevantInputs(x, y, w) ==
    LET base == <<Item("y_data", y), Item("weights", w)>>
    IN IF UpdateRaises(x)
       THEN DictUpdate(base, <<Item("x_data", x.arr)>>)
       ELSE IF x.isDict THEN DictUpdate(base, x.items)
       ELSE base

\* lines 290-295: the exception the loop over relevant_inputs.items() leaves
\* with
RECURSIVE SeriesCheck(_, _)
SeriesCheck(rel, n) ==
    IF rel = <<>> THEN NoExc
    ELSE IF ~(length(Head(rel).v) = n) THEN Exc("ValueError", "series_length")
    ELSE SeriesCheck(Tail(rel), n)

\* lines 280-295
CheckDims ==
    /\ pc = "check_dims"
    /\ relevant_inputs' = RelevantInputs(x_data, y_data, weights[1])
    /\ LET e == SeriesCheck(relevant_inputs', n_datapoints)
       IN IF e # NoExc THEN Raise(e)
          ELSE /\ pc' = "opti"
               /\ exc' = exc
    /\ UNCHANGED <<inp, x_data, x_data_is_dict, y_data, n_datapoints, weights,
                   opti, params, y_model, error, modelCalls, sol,
                   params_solved, result>>
    /\ UNCHANGED <<caller, readers, other>>

----------------------------------------------------------------------------
(* The optimization environment (aerosandbox.optimization.opti.Opti) *)

\* Opti(): an environment with nothing registered
NewOpti == [created |-> TRUE, variables |-> <<>>, constraints |-> <<>>,
            objective |-> <<>>, solves |-> 0]

NoOpti == [created |-> FALSE, variables |-> <<>>, constraints |-> <<>>,
           objective |-> <<>>, solves |-> 0]

\* opti.variable(init_guess, n_vars, lower_bound, upper_bound); the handle of
\* the new variable is its position, Len(o.variables) + 1
OptiVariable(o, init_guess, n_vars, lower_bound, upper_bound) ==
    [o EXCEPT !.variables = Append(@, [init |-> init_guess, n_vars |-> n_vars,
                                       lb |-> lower_bound, ub |-> upper_bound])]

\* opti.subject_to(list of constraints)
OptiSubjectTo(o, cs) == [o EXCEPT !.constraints = @ \o cs]

\* opti.minimize(f)
OptiMinimize(o, f) == [o EXCEPT !.objective = <<f>>]

(* symbolic expressions: one value per datapoint *)

Expr(t, handle) == [tag |-> t, h |-> handle, neg |-> FALSE]

Neg(e) == [e EXCEPT !.neg = ~@]

\* lhs >= rhs, elementwise
Geq(l, r) == [lhs |-> l, rhs |-> r]

Objective(o, e) == [op |-> o, e |-> e]

----------------------------------------------------------------------------
(* fit_model, lines 297-360: assembling the problem *)

\* CreateOpti with one environment kept for all invocations: a later
\* invocation starts from what an earlier one has registered so far
CreateOptiShared ==
    /\ pc = "opti"
    /\ opti' = IF other # <<>> /\ other[1].opti.created
               THEN other[1].opti ELSE NewOpti
    /\ pc' = "declare"
    /\ UNCHANGED <<inp, x_data, x_data_is_dict, y_data, n_datapoints, weights,
                   relevant_inputs, params, y_model, error, modelCalls, sol,
                   params_solved, result, exc>>
    /\ UNCHANGED <<caller, readers, other>>

\* line 300
CreateOpti ==
    /\ pc = "opti"
    /\ opti' = NewOpti
    /\ pc' = "declare"
    /\ UNCHANGED <<inp, x_data, x_data_is_dict, y_data, n_datapoints, weights,
                   relevant_inputs, params, y_model, error, modelCalls, sol,
                   params_solved, result, exc>>
    /\ UNCHANGED <<caller, readers, other>>

\* DeclareLoop with the two sides of a bound exchanged
RECURSIVE DeclareLoopSwapped(_, _, _, _)
DeclareLoopSwapped(o, ps, guesses, bounds) ==
    IF guesses = <<>> THEN <<o, ps>>
    ELSE LET param_name == Head(guesses).k
             param_initial_guess == Head(guesses).v
             o2 == IF DictHas(bounds, param_name)
                   THEN OptiVariable(o, param_initial_guess, 1,
                                     DictGet(bounds, param_name)[2],
                                     DictGet(bounds, param_name)[1])
                   ELSE OptiVariable(o, param_initial_guess, 1, None, None)
         IN DeclareLoopSwapped(o2, DictSet(ps, param_name, Len(o2.variables)),
                               Tail(guesses), bounds)

\* lines 304-314: the environment and the params dict after the loop over
\* parameter_guesses.items(), from the state <<o, ps>>
RECURSIVE DeclareLoop(_, _, _, _)
DeclareLoop(o, ps, guesses, bounds) ==
    IF guesses = <<>> THEN <<o, ps>>
    ELSE LET param_name == Head(guesses).k
             param_initial_guess == Head(guesses).v
             o2 == IF DictHas(bounds, param_name)
                   THEN OptiVariable(o, param_initial_guess, 1,
                                     DictGet(bounds, param_name)[1],
                                     DictGet(bounds, param_name)[2])
                   ELSE OptiVariable(o, param_initial_guess, 1, None, None)
         IN DeclareLoop(o2, DictSet(ps, param_name, Len(o2.variables)),
                        Tail(guesses), bounds)

\* lines 302-314
DeclareParams ==
    /\ pc = "declare"
    /\ LET r == DeclareLoop(opti, <<>>, inp.parameter_guesses,
                            BoundsOrEmpty(inp.parameter_bounds))
       IN /\ opti' = r[1]
          /\ params' = r[2]
    /\ pc' = "model"
    /\ UNCHANGED <<inp, x_data, x_data_is_dict, y_data, n_datapoints, weights,
                   relevant_inputs, y_model, error, modelCalls, sol,
                   params_solved, result, exc>>
    /\ UNCHANGED <<caller, readers, other>>

\* EvalModel calling the Model a first time on the initial guesses
EvalModelTwice ==
    /\ pc = "model"
    /\ modelCalls' = modelCalls + 2
    /\ IF inp.model = "none"
       THEN /\ y_model' = y_model
            /\ Raise(Exc("TypeError", "model_none"))
       ELSE /\ y_model' = <<Expr("y_model", 0)>>
            /\ pc' = "error"
            /\ exc' = exc
    /\ UNCHANGED <<inp, x_data, x_data_is_dict, y_data, n_datapoints, weights,
                   relevant_inputs, opti, params, error, sol, params_solved,
                   result>>
    /\ UNCHANGED <<caller, readers, other>>

\* EvalModel without the check of line 318
EvalModelUnchecked ==
    /\ pc = "model"
    /\ modelCalls' = modelCalls + 1
    /\ y_model' = <<Expr("y_model", 0)>>
    /\ pc' = "error"
    /\ UNCHANGED <<inp, x_data, x_data_is_dict, y_data, n_datapoints, weights,
                   relevant_inputs, opti, params, error, sol, params_solved,
                   result, exc>>
    /\ UNCHANGED <<caller, readers, other>>

\* lines 316-319: the Model is called once; a Model that returns None makes
\* fit_model raise TypeError
EvalModel ==
    /\ pc = "model"
    /\ modelCalls' = modelCalls + 1
    /\ IF inp.model = "none"
       THEN /\ y_model' = y_model
            /\ Raise(Exc("TypeError", "model_none"))
       ELSE /\ y_model' = <<Expr("y_model", 0)>>
            /\ pc' = "error"
            /\ exc' = exc
    /\ UNCHANGED <<inp, x_data, x_data_is_dict, y_data, n_datapoints, weights,
                   relevant_inputs, opti, params, error, sol, params_solved,
                   result>>
    /\ UNCHANGED <<caller, readers, other>>

\* lines 321-326
ComputeError ==
    /\ pc = "error"
    /\ IF ~inp.put_residuals_in_logspace
       THEN /\ error' = <<Expr("y_model - y_data", 0)>>
            /\ y_model' = y_model
       ELSE /\ y_model' = <<Expr("fmax(y_model)", 0)>>
            /\ error' = <<Expr("log(y_model) - log(y_data)", 0)>>
    /\ pc' = "objective"
    /\ UNCHANGED <<inp, x_data, x_data_is_dict, y_data, n_datapoints, weights,
                   relevant_inputs, opti, params, modelCalls, sol,
                   params_solved, result, exc>>
    /\ UNCHANGED <<caller, readers, other>>

\* str.lower() on the letters a norm name is spelled with
LowerChar(c) ==
    CASE c = "L" -> "l"
      [] c = "I" -> "i"
      [] c = "N" -> "n"
      [] c = "F" -> "f"
      [] OTHER -> c

\* lower that leaves the string as it is
lowerNothing(s) == s

lower(s) == [i \in DOMAIN s |-> LowerChar(s[i])]

\* ObjectiveL1 without the constraint on the negated error
ObjectiveL1OneSided(o, err, y) ==
    LET o1 == OptiVariable(o, 0, length(y), None, None)
        abs_error == Expr("var", Len(o1.variables))
        o2 == OptiSubjectTo(o1, <<Geq(abs_error, err), Geq(abs_error, err)>>)
    IN OptiMinimize(o2, Objective("sum1", abs_error))

\* lines 329-336
ObjectiveL1(o, err, y) ==
    LET o1 == OptiVariable(o, 0, length(y), None, None)
        abs_error == Expr("var", Len(o1.variables))
        o2 == OptiSubjectTo(o1, <<Geq(abs_error, err),
                                  Geq(abs_error, Neg(err))>>)
    IN OptiMinimize(o2, Objective("sum1", abs_error))

\* ObjectiveL2 without the square
ObjectiveL2NoSquare(o, err, w) == OptiMinimize(o, Objective("sum1", err))

\* lines 338-339
ObjectiveL2(o, err, w) == OptiMinimize(o, Objective("sum1_sq", err))

\* ObjectiveLinf without the constraint on the negated error
ObjectiveLinfOneSided(o, err) ==
    LET o1 == OptiVariable(o, 0, 1, None, None)
        linf_value == Expr("var", Len(o1.variables))
        o2 == OptiSubjectTo(o1, <<Geq(linf_value, err), Geq(linf_value, err)>>)
    IN OptiMinimize(o2, Objective("id", linf_value))

\* lines 341-347
ObjectiveLinf(o, err) ==
    LET o1 == OptiVariable(o, 0, 1, None, None)
        linf_value == Expr("var", Len(o1.variables))
        o2 == OptiSubjectTo(o1, <<Geq(linf_value, err),
                                  Geq(linf_value, Neg(err))>>)
    IN OptiMinimize(o2, Objective("id", linf_value))

\* lines 328-350
SetObjective ==
    /\ pc = "objective"
    /\ LET norm == lower(inp.residual_norm_type)
       IN IF norm = <<"l", "1">>
          THEN /\ opti' = ObjectiveL1(opti, error[1], y_data)
               /\ pc' = "fit_type"
               /\ exc' = exc
          ELSE IF norm = <<"l", "2">>
          THEN /\ opti' = ObjectiveL2(opti, error[1], weights[1])
               /\ pc' = "fit_type"
               /\ exc' = exc
          ELSE IF norm = <<"l", "i", "n", "f">>
          THEN /\ opti' = ObjectiveLinf(opti, error[1])
               /\ pc' = "fit_type"
               /\ exc' = exc
          ELSE /\ opti' = opti
               /\ Raise(Exc("ValueError", "residual_norm_type"))
    /\ UNCHANGED <<inp, x_data, x_data_is_dict, y_data, n_datapoints, weights,
                   relevant_inputs, params, y_model, error, modelCalls, sol,
                   params_solved, result>>
    /\ UNCHANGED <<caller, readers, other>>

\* FitTypeConstraints with the two inequalities exchanged
FitTypeConstraintsSwapped(fit_type, ym) ==
    IF fit_type = "upper bound" THEN <<Geq(Expr("y_data", 0), ym)>>
    ELSE IF fit_type = "lower bound" THEN <<Geq(ym, Expr("y_data", 0))>>
    ELSE <<>>

\* lines 353-358: the constraints fit_type adds
FitTypeConstraints(fit_type, ym) ==
    IF fit_type = "upper bound" THEN <<Geq(ym, Expr("y_data", 0))>>
    ELSE IF fit_type = "lower bound" THEN <<Geq(Expr("y_data", 0), ym)>>
    ELSE <<>>

\* ApplyFitType with an unknown fit type taken for "best"
ApplyFitTypeLenient ==
    /\ pc = "fit_type"
    /\ opti' = OptiSubjectTo(opti, FitTypeConstraints(inp.fit_type, y_model[1]))
    /\ pc' = "solve"
    /\ UNCHANGED <<inp, x_data, x_data_is_dict, y_data, n_datapoints, weights,
                   relevant_inputs, params, y_model, error, modelCalls, sol,
                   params_solved, result, exc>>
    /\ UNCHANGED <<caller, readers, other>>

\* lines 352-360
ApplyFitType ==
    /\ pc = "fit_type"
    /\ IF inp.fit_type \in {"best", "upper bound", "lower bound"}
       THEN /\ opti' = OptiSubjectTo(opti,
                           FitTypeConstraints(inp.fit_type, y_model[1]))
            /\ pc' = "solve"
            /\ exc' = exc
       ELSE /\ opti' = opti
            /\ Raise(Exc("ValueError", "fit_type"))
    /\ UNCHANGED <<inp, x_data, x_data_is_dict, y_data, n_datapoints, weights,
                   relevant_inputs, params, y_model, error, modelCalls, sol,
                   params_solved, result>>
    /\ UNCHANGED <<caller, readers, other>>

----------------------------------------------------------------------------
(* The Model functions fitted in this development, f(x, p) *)

\* the series a one-input Model reads: x itself, or x["x1"]
XSeries(x) == IF x.isDict THEN DictGet(x.items, "x1") ELSE x.arr

\* element i of model(x, p), p a dict of numbers:
\*   "const"  is  lambda x, p: p["b"]
\*   "linear" is  lambda x, p: p["m"] * x + p["b"]
ModelAt(model, x, p, i) ==
    IF model = "linear"
    THEN DictGet(p, "m") * XSeries(x)[i] + DictGet(p, "b")
    ELSE DictGet(p, "b")

----------------------------------------------------------------------------
(* Numeric value of the symbolic expressions at a point.  A point gives   *)
(* every declared variable a vector of values, by handle.  Logarithms are *)
(* fixed-point, in units of 1/10.                                         *)

\* 1e-300 in the integer units of the data (line 325)
Tiny == 0

\* 10 * ln(1e-300)
LogTiny == -6908

\* 10 * ln(v), v = 1..16
LogTable == <<0, 7, 11, 14, 16, 18, 19, 21, 22, 23, 24, 25, 26, 26, 27, 28>>

\* np.fmax(v, 1e-300)
Fmax(v) == IF v > Tiny THEN v ELSE Tiny

\* np.log
Log(v) == IF v = Tiny THEN LogTiny ELSE LogTable[v]

\* the parameter values a point gives, as the dict handed to the Model
ParamsAt(ps, pt) == [j \in DOMAIN ps |-> Item(ps[j].k, pt[ps[j].v][1])]

Prediction(i, pt) == ModelAt(inp.model, x_data, ParamsAt(params, pt), i)

ExprValue(e, i, pt) ==
    LET base ==
          CASE e.tag = "var" ->
                 IF Len(pt[e.h]) = 1 THEN pt[e.h][1] ELSE pt[e.h][i]
            [] e.tag = "y_model" -> Prediction(i, pt)
            [] e.tag = "fmax(y_model)" -> Fmax(Prediction(i, pt))
            [] e.tag = "y_data" -> y_data[i]
            [] e.tag = "y_model - y_data" -> Prediction(i, pt) - y_data[i]
            [] e.tag = "log(y_model) - log(y_data)" ->
                 Log(Fmax(Prediction(i, pt))) - Log(y_data[i])
    IN IF e.neg THEN -base ELSE base

Holds(c, pt) ==
    \A i \in 1..n_datapoints : ExprValue(c.lhs, i, pt) >= ExprValue(c.rhs, i, pt)

ObjectiveValue(f, pt) ==
    CASE f.op = "sum1" ->
           SeqSum([i \in 1..n_datapoints |-> ExprValue(f.e, i, pt)])
      [] f.op = "sum1_sq" ->
           SeqSum([i \in 1..n_datapoints |->
                      ExprValue(f.e, i, pt) * ExprValue(f.e, i, pt)])
      [] f.op = "id" -> ExprValue(f.e, 1, pt)

----------------------------------------------------------------------------
(* The solver behind opti.solve().  Its search space is a grid: the Model's *)
(* parameters range over ParamVals within their bounds, every other         *)
(* (auxiliary) variable over the magnitudes the right-hand sides of its     *)
(* constraints take at those parameters.  A solve that converges returns a *)
(* feasible point of least objective.                                       *)

ParamVals == (-1)..MaxVal

ParamHandles(ps) == {ps[j].v : j \in DOMAIN ps}

WithinBounds(var, v) ==
    /\ var.lb.none \/ v >= var.lb.v
    /\ var.ub.none \/ v <= var.ub.v

\* the assignments of the parameters' variables
ParamAssignments(o, ps) ==
    {pa \in [ParamHandles(ps) -> ParamVals] :
        \A h \in ParamHandles(ps) : WithinBounds(o.variables[h], pa[h])}

\* a point that gives the parameters pa and every other variable zeros
Partial(o, ps, pa) ==
    [h \in 1..Len(o.variables) |->
        IF h \in ParamHandles(ps) THEN <<pa[h]>>
        ELSE [i \in 1..o.variables[h].n_vars |-> 0]]

AuxVals(o, ps, pa) ==
    {0} \cup {Abs(ExprValue(o.constraints[c].rhs, i, Partial(o, ps, pa))) :
                 c \in {d \in DOMAIN o.constraints :
                           o.constraints[d].lhs.tag = "var"},
                 i \in 1..n_datapoints}

RECURSIVE PointsUpTo(_, _, _, _)
PointsUpTo(h, o, ps, pa) ==
    IF h = 0 THEN {<<>>}
    ELSE LET vecs == IF h \in ParamHandles(ps) THEN {<<pa[h]>>}
                     ELSE [1..o.variables[h].n_vars -> AuxVals(o, ps, pa)]
         IN {Append(pre, vec) : pre \in PointsUpTo(h - 1, o, ps, pa),
                                vec \in vecs}

Points(o, ps) ==
    UNION {PointsUpTo(Len(o.variables), o, ps, pa) :
              pa \in ParamAssignments(o, ps)}

Feasible(o, pt) == \A c \in DOMAIN o.constraints : Holds(o.constraints[c], pt)

Minimum(S) == CHOOSE v \in S : \A w \in S : v <= w

Solutions(o, ps) ==
    LET feas == {pt \in Points(o, ps) : Feasible(o, pt)}
        vals == {ObjectiveValue(o.objective[1], pt) : pt \in feas}
    IN IF feas = {} THEN {}
       ELSE {pt \in feas : ObjectiveValue(o.objective[1], pt) = Minimum(vals)}

----------------------------------------------------------------------------
(* fit_model, lines 362-381: solve, extraction, return *)

\* opti.solve() returning: a solution handle at point pt, whose value()
\* raises for the variables in unreadable
Solution(pt, unreadable) == [pt |-> pt, unreadable |-> unreadable]

\* Solve with a failed solve tried again
SolveRetry ==
    /\ pc = "solve"
    /\ opti' = [opti EXCEPT !.solves = @ + 1]
    /\ \/ \E pt \in Solutions(opti, params) :
             \E unreadable \in SUBSET ParamHandles(params) :
                /\ sol' = <<Solution(pt, unreadable)>>
                /\ pc' = "extract"
                /\ exc' = exc
       \/ /\ opti.solves < 1
          /\ sol' = sol
          /\ pc' = "solve"
          /\ exc' = exc
       \/ /\ sol' = sol
          /\ Raise(Exc("RuntimeError", "solve"))
    /\ UNCHANGED <<inp, x_data, x_data_is_dict, y_data, n_datapoints, weights,
                   relevant_inputs, params, y_model, error, modelCalls,
                   params_solved, result>>
    /\ UNCHANGED <<caller, readers, other>>

\* line 363: the one blocking solve; a solve that fails raises, and the
\* exception leaves fit_model
Solve ==
    /\ pc = "solve"
    /\ opti' = [opti EXCEPT !.solves = @ + 1]
    /\ \/ \E pt \in Solutions(opti, params) :
             \E unreadable \in SUBSET ParamHandles(params) :
                /\ sol' = <<Solution(pt, unreadable)>>
                /\ pc' = "extract"
                /\ exc' = exc
       \/ /\ sol' = sol
          /\ Raise(Exc("RuntimeError", "solve"))
    /\ UNCHANGED <<inp, x_data, x_data_is_dict, y_data, n_datapoints, weights,
                   relevant_inputs, params, y_model, error, modelCalls,
                   params_solved, result>>
    /\ UNCHANGED <<caller, readers, other>>

\* SolvedParams giving up on every parameter once one retrieval raises
SolvedParamsAllNaN(ps, s) ==
    [j \in DOMAIN ps |->
        Item(ps[j].k, IF s.unreadable # {} THEN NaN
                      ELSE Float(s.pt[ps[j].v][1]))]

\* lines 368-373: sol.value(params[name]), and NaN where it raises
SolvedParams(ps, s) ==
    [j \in DOMAIN ps |->
        Item(ps[j].k, IF ps[j].v \in s.unreadable THEN NaN
                      ELSE Float(s.pt[ps[j].v][1]))]

\* lines 367-373
Extract ==
    /\ pc = "extract"
    /\ params_solved' = SolvedParams(params, sol[1])
    /\ pc' = "return"
    /\ UNCHANGED <<inp, x_data, x_data_is_dict, y_data, n_datapoints, weights,
                   relevant_inputs, opti, params, y_model, error, modelCalls,
                   sol, result, exc>>
    /\ UNCHANGED <<caller, readers, other>>

\* lines 36-52
NewFittedModel(model, parameters, x, y) ==
    [model |-> model, parameters |-> parameters, x_data |-> x, y_data |-> y]

\* Return handing back the initial guesses in place of the solved values
ReturnGuesses ==
    /\ pc = "return"
    /\ result' = <<NewFittedModel(inp.model,
                                  [j \in DOMAIN inp.parameter_guesses |->
                                      Item(inp.parameter_guesses[j].k,
                                           Float(inp.parameter_guesses[j].v))],
                                  x_data, y_data)>>
    /\ pc' = "done"
    /\ UNCHANGED <<inp, x_data, x_data_is_dict, y_data, n_datapoints, weights,
                   relevant_inputs, opti, params, y_model, error, modelCalls,
                   sol, params_solved, exc>>
    /\ UNCHANGED <<caller, readers, other>>

\* lines 375-381
Return ==
    /\ pc = "return"
    /\ result' = <<NewFittedModel(inp.model, params_solved, x_data, y_data)>>
    /\ pc' = "done"
    /\ UNCHANGED <<inp, x_data, x_data_is_dict, y_data, n_datapoints, weights,
                   relevant_inputs, opti, params, y_model, error, modelCalls,
                   sol, params_solved, exc>>
    /\ UNCHANGED <<caller, readers, other>>

----------------------------------------------------------------------------
(* FittedModel, lines 54-135: the operations of the callers that hold the   *)
(* returned object.  Every caller holds a reference to the one object, the  *)
(* value of result.                                                          *)

\* largest number of callers using one FittedModel at the same time
MaxReaders == 2

Readers == 1..MaxReaders

\* what an operation handed back to its caller
Returned(kind, v) == [kind |-> kind, v |-> v]

\* a caller between two operations: the last operation, its argument, what
\* it returned and the exception it raised
Idle(op, arg, out, e) ==
    [pc |-> "idle", op |-> op, arg |-> arg, out |-> out, exc |-> e]

\* a caller that has used nothing yet
NewReader ==
    Idle("", [isDict |-> FALSE, arr |-> <<>>, items |-> <<>>],
         Returned("nothing", <<>>), NoExc)

\* model(x, p) for a dict p of floats, some of them NaN: a NaN parameter the
\* Model reads makes every entry NaN
ModelValue(model, x, p) ==
    LET vals == [j \in DOMAIN p |-> Item(p[j].k, p[j].v.v)]
        nan == \E j \in DOMAIN p :
                  /\ p[j].v.nan
                  /\ p[j].k \in (IF model = "linear" THEN {"m", "b"} ELSE {"b"})
    IN IF model = "linear"
       THEN [i \in DOMAIN XSeries(x) |->
                IF nan THEN NaN ELSE Float(ModelAt(model, x, vals, i))]
       ELSE <<IF nan THEN NaN ELSE Float(ModelAt(model, x, vals, 1))>>

\* FittedModel.__call__ evaluating at the training data whatever x is
FittedModelCallAtTrainingData(fm, x) ==
    ModelValue(fm.model, fm.x_data, fm.parameters)

\* lines 54-55
FittedModelCall(fm, x) == ModelValue(fm.model, x, fm.parameters)

\* lines 75-79: the keys of a dict, None for an array (which has no keys())
input_names(fm) ==
    IF fm.x_data.isDict
    THEN [none |-> FALSE,
          v |-> [i \in DOMAIN fm.x_data.items |-> fm.x_data.items[i].k]]
    ELSE None

\* input_dimensionality returning len(x_data)
input_dimensionality_len(fm) ==
    IF fm.x_data.isDict THEN Len(fm.x_data.items) ELSE Len(fm.x_data.arr)

\* lines 68-73
input_dimensionality(fm) ==
    LET names == input_names(fm)
    IN IF ~names.none THEN Len(names.v) ELSE 1

\* lines 57-66: the two parts the string is formatted from
repr(fm) ==
    LET names == input_names(fm)
    IN [dimensionality |-> input_dimensionality(fm),
        input |-> IF ~names.none THEN "a dict with keys" ELSE "a float or array",
        keys |-> IF ~names.none THEN names.v ELSE <<>>]

\* lines 90-93
axis_range(x_data_axis) ==
    <<CHOOSE v \in {x_data_axis[i] : i \in DOMAIN x_data_axis} :
         \A i \in DOMAIN x_data_axis : v <= x_data_axis[i],
      CHOOSE v \in {x_data_axis[i] : i \in DOMAIN x_data_axis} :
         \A i \in DOMAIN x_data_axis : v >= x_data_axis[i]>>

\* aerosandbox.optimization.math.linspace, for num = 2: the two end points
linspace(start, stop, num) == [i \in 1..num |-> IF i = 1 THEN start ELSE stop]

\* the inputs a caller evaluates a FittedModel at: its training x_data, and
\* x_data of the same shape with every value one larger
Shifted(x) ==
    [isDict |-> x.isDict,
     arr |-> [i \in DOMAIN x.arr |-> x.arr[i] + 1],
     items |-> [j \in DOMAIN x.items |->
                   Item(x.items[j].k,
                        [i \in DOMAIN x.items[j].v |-> x.items[j].v[i] + 1])]]

EvalInputs(fm) == {fm.x_data, Shifted(fm.x_data)}

\* the frame of every operation of a caller
ReaderFrame == UNCHANGED <<locals, other>>

\* y = fitted_model(x)
FMCall(r) ==
    /\ result # <<>>
    /\ readers[r].pc = "idle"
    /\ \E x \in EvalInputs(result[1]) :
          readers' = [readers EXCEPT ![r] =
              Idle("call", x,
                   Returned("value", FittedModelCall(result[1], x)), NoExc)]
    /\ ReaderFrame

\* fitted_model.input_names()
FMInputNames(r) ==
    /\ result # <<>>
    /\ readers[r].pc = "idle"
    /\ readers' = [readers EXCEPT ![r] =
          Idle("input_names", NewReader.arg,
               Returned("names", input_names(result[1])), NoExc)]
    /\ ReaderFrame

\* fitted_model.input_dimensionality()
FMInputDimensionality(r) ==
    /\ result # <<>>
    /\ readers[r].pc = "idle"
    /\ readers' = [readers EXCEPT ![r] =
          Idle("input_dimensionality", NewReader.arg,
               Returned("int", input_dimensionality(result[1])), NoExc)]
    /\ ReaderFrame

\* repr(fitted_model)
FMRepr(r) ==
    /\ result # <<>>
    /\ readers[r].pc = "idle"
    /\ readers' = [readers EXCEPT ![r] =
          Idle("repr", NewReader.arg,
               Returned("repr", repr(result[1])), NoExc)]
    /\ ReaderFrame

\* PlotFitParse keeping the fitted curve as the object's y_data
PlotFitParseStoring(r) ==
    /\ result # <<>>
    /\ readers[r].pc = "idle"
    /\ IF input_dimensionality(result[1]) # 1 \/ ~input_names(result[1]).none
          \/ result[1].x_data.arr = <<>>
       THEN /\ readers' = [readers EXCEPT ![r] =
                  Idle("plot_fit", NewReader.arg, Returned("none", <<>>), NoExc)]
            /\ UNCHANGED locals
       ELSE LET range == axis_range(result[1].x_data.arr)
                x_fit == [isDict |-> FALSE, items |-> <<>>,
                          arr |-> linspace(range[1], range[2], 2)]
            IN /\ readers' = [readers EXCEPT ![r] =
                     [pc |-> "plot", op |-> "plot_fit", arg |-> x_fit,
                      out |-> Returned("value",
                                       FittedModelCall(result[1], x_fit)),
                      exc |-> NoExc]]
               /\ result' = <<[result[1] EXCEPT !.y_data =
                       [i \in DOMAIN FittedModelCall(result[1], x_fit) |->
                           FittedModelCall(result[1], x_fit)[i].v]]>>
               /\ UNCHANGED <<inp, pc, x_data, x_data_is_dict, y_data,
                              n_datapoints, weights, relevant_inputs, opti,
                              params, y_model, error, modelCalls, sol,
                              params_solved, exc>>
    /\ UNCHANGED <<caller, other>>

\* fitted_model.plot_fit(resolution=2), lines 95-113.  With a named x_data
\* line 99 subscripts self.x_data.keys(), a dict view, which raises
\* TypeError; np.min of an empty array raises ValueError (line 90).  With a
\* dimensionality other than 1 plot_fit does nothing.
PlotFitParse(r) ==
    /\ result # <<>>
    /\ readers[r].pc = "idle"
    /\ IF input_dimensionality(result[1]) # 1
       THEN readers' = [readers EXCEPT ![r] =
               Idle("plot_fit", NewReader.arg, Returned("none", <<>>), NoExc)]
       ELSE IF ~input_names(result[1]).none
       THEN readers' = [readers EXCEPT ![r] =
               Idle("plot_fit", NewReader.arg, Returned("none", <<>>),
                    Exc("TypeError", "keys()[0]"))]
       ELSE IF result[1].x_data.arr = <<>>
       THEN readers' = [readers EXCEPT ![r] =
               Idle("plot_fit", NewReader.arg, Returned("none", <<>>),
                    Exc("ValueError", "axis_range"))]
       ELSE LET range == axis_range(result[1].x_data.arr)
                x_fit == [isDict |-> FALSE, items |-> <<>>,
                          arr |-> linspace(range[1], range[2], 2)]
            IN readers' = [readers EXCEPT ![r] =
                  [pc |-> "plot", op |-> "plot_fit", arg |-> x_fit,
                   out |-> Returned("value", FittedModelCall(result[1], x_fit)),
                   exc |-> NoExc]]
    /\ ReaderFrame

\* lines 115-135: the figure is drawn from x_data, self.y_data, x_fit and
\* y_fit; plot_fit returns None
PlotFitDraw(r) ==
    /\ result # <<>>
    /\ readers[r].pc = "plot"
    /\ readers' = [readers EXCEPT ![r] =
          Idle("plot_fit", readers[r].arg, Returned("none", <<>>), NoExc)]
    /\ ReaderFrame

----------------------------------------------------------------------------
(* The calls of fit_model explored *)

Chars(norm) ==
    CASE norm = "L1" -> <<"L", "1">>
      [] norm = "L2" -> <<"L", "2">>
      [] norm = "Linf" -> <<"L", "i", "n", "f">>

Arr(rows) == [isDict |-> FALSE, arr |-> rows, items |-> <<>>]

Dict(items) == [isDict |-> TRUE, arr |-> <<>>, items |-> items]

NoWeights == [none |-> TRUE, dtype |-> "float", v |-> <<>>]

Weights(dtype, rows) == [none |-> FALSE, dtype |-> dtype, v |-> rows]

NoBounds == [none |-> TRUE, v |-> <<>>]

Bounds(d) == [none |-> FALSE, v |-> d]

\* a 1-D list of k ones, and the 1-D list 0, 1, ..., k-1
OnesList(k) == <<[i \in 1..k |-> 1]>>

Ramp(k) == <<[i \in 1..k |-> i - 1]>>

\* the 1-D list 1, 2, ..., k
OneUp(k) == <<[i \in 1..k |-> i]>>

Lists(S, lo, hi) == UNION {{<<s>> : s \in [1..k -> S]} : k \in lo..hi}

\* fit_model(model, x, y, guesses) with every optional argument defaulted
Call(model, x, y, guesses) ==
    [model |-> model, x_data |-> x, y_data |-> y,
     parameter_guesses |-> guesses, parameter_bounds |-> NoBounds,
     residual_norm_type |-> Chars("L2"), fit_type |-> "best",
     weights |-> NoWeights, put_residuals_in_logspace |-> FALSE]

GuessB == {<<Item("b", g)>> : g \in {0, MaxVal}}

GuessMB == {<<Item("m", g), Item("b", 0)>> : g \in {0, MaxVal}}

\* series of every length, under every name, against y_data and weights
LengthCalls ==
    LET lens == 0..MaxN
        xs == {Arr(OnesList(k)) : k \in lens}
              \cup {Arr(<<<<1>>, <<1>>>>), Dict(<<>>)}
              \cup {Dict(<<Item(name, OnesList(k))>>) :
                       name \in {"x1", "y_data", "weights"}, k \in lens}
              \cup {Dict(<<Item("x1", OnesList(k)), Item("x2", OnesList(j))>>) :
                       k \in lens, j \in lens}
        ws == {NoWeights} \cup {Weights("float", OnesList(k)) : k \in lens}
              \cup {Weights("int", OnesList(MaxN))}
    IN {[Call("const", x, OnesList(k), <<Item("b", 0)>>)
            EXCEPT !.weights = w] : x \in xs, k \in lens, w \in ws}

BoundValues ==
    {<<>>, <<Num(0)>>, <<Num(0), Num(MaxVal)>>, <<None, Num(MaxVal)>>,
     <<Num(0), None>>, <<None, None>>, <<Num(0), Num(1), Num(MaxVal)>>}

\* bounds of every shape, on known and unknown parameter names
BoundsCalls ==
    LET names == {"m", "b", "q"}
        one == {<<Item(k, v)>> : k \in names, v \in BoundValues}
        two == {<<Item(k1, v1), Item(k2, v2)>> :
                   k1 \in names, k2 \in names, 
                   v1 \in {<<Num(0)>>, <<Num(0), Num(MaxVal)>>},
                   v2 \in {<<Num(0)>>, <<Num(0), Num(MaxVal)>>}}
        bs == {NoBounds, Bounds(<<>>)} \cup {Bounds(d) : d \in one}
              \cup {Bounds(d) : d \in {t \in two : t[1].k # t[2].k}}
        ys == {<<OnesList(MaxN), FALSE>>, <<OnesList(MaxN), TRUE>>,
               <<Ramp(MaxN), TRUE>>}
        ws == {NoWeights, Weights("int", OnesList(MaxN))}
    IN {[Call("const", Arr(Ramp(MaxN)), y[1], g)
            EXCEPT !.parameter_bounds = b, !.weights = w,
                   !.put_residuals_in_logspace = y[2]] :
           g \in {<<Item("b", 0)>>, <<Item("m", 0), Item("b", 0)>>},
           b \in bs, y \in ys, w \in ws}

NormNames ==
    {<<"L", "1">>, <<"l", "1">>, <<"L", "2">>, <<"l", "2">>,
     <<"L", "i", "n", "f">>, <<"l", "i", "n", "f">>, <<"L", "I", "N", "F">>,
     <<"l", "I", "n", "f">>, <<"L", "3">>, <<"L">>, <<>>,
     <<"i", "n", "f">>, <<"L", "2", "2">>}

FitTypeNames ==
    {"best", "upper bound", "lower bound", "Best", "UPPER BOUND", "upper", ""}

\* every spelling of the norm and the fit type
ConfigCalls ==
    {[Call("const", Arr(Ramp(MaxN)), OnesList(MaxN), <<Item("b", 0)>>)
         EXCEPT !.residual_norm_type = norm, !.fit_type = ft,
                !.put_residuals_in_logspace = lg] :
        norm \in NormNames, ft \in FitTypeNames, lg \in BOOLEAN}

\* fits of each Model to every small dataset
SolveCalls ==
    LET core == {[Call(mg[1], Arr(Ramp(Len(y[1]))), y, mg[2])
                     EXCEPT !.residual_norm_type = Chars(norm), !.fit_type = ft,
                            !.put_residuals_in_logspace = lg] :
                    mg \in ({"const"} \X GuessB) \cup ({"linear"} \X GuessMB),
                    y \in Lists(0..MaxVal, 1, MaxN),
                    norm \in {"L1", "L2", "Linf"},
                    ft \in {"best", "upper bound", "lower bound"},
                    lg \in BOOLEAN}
        bounded == {[c EXCEPT !.parameter_bounds = Bounds(<<Item("b", v)>>)] :
                       c \in {d \in core : /\ d.model = "linear"
                                          /\ Len(d.y_data[1]) = MaxN
                                          /\ ~d.put_residuals_in_logspace},
                       v \in {<<Num(1), None>>, <<None, Num(0)>>}}
        weighted == {[c EXCEPT !.weights =
                                   Weights("float", OneUp(Len(c.y_data[1])))] :
                        c \in {d \in core : /\ d.fit_type = "best"
                                           /\ ~d.put_residuals_in_logspace}}
        named == {[c EXCEPT !.x_data = Dict(<<Item("x1", c.x_data.arr)>>)] :
                     c \in {d \in core : /\ d.fit_type = "best"
                                        /\ d.residual_norm_type = Chars("L2")}}
        none == {Call("none", Arr(Ramp(MaxN)), OnesList(MaxN), <<Item("b", 0)>>)}
        \* the fit of test_fitted_model.py, to the line y = 2 x + 1
        line == {Call("linear", Arr(<<<<0, 1, 2, 3, 4>>>>),
                      <<<<1, 3, 5, 7, 9>>>>, <<Item("m", 0), Item("b", 0)>>)}
    IN core \cup bounded \cup weighted \cup named \cup none \cup line

\* weights of every magnitude and element type
WeightCalls ==
    {[Call("const", Arr(Ramp(MaxN)), OnesList(MaxN), <<Item("b", 0)>>)
         EXCEPT !.weights = Weights(dtype, w)] :
        dtype \in {"float", "int"}, w \in Lists(0..MaxVal, MaxN, MaxN)}

Calls ==
    LengthCalls \cup BoundsCalls \cup ConfigCalls \cup SolveCalls
    \cup WeightCalls

----------------------------------------------------------------------------
(* The state machine *)

\* the locals of an invocation that has executed nothing yet
InitLocals ==
    /\ pc = "flatten"
    /\ x_data = Arr(<<>>)
    /\ x_data_is_dict = FALSE
    /\ y_data = <<>>
    /\ n_datapoints = 0
    /\ weights = <<>>
    /\ relevant_inputs = <<>>
    /\ opti = NoOpti
    /\ params = <<>>
    /\ y_model = <<>>
    /\ error = <<>>
    /\ modelCalls = 0
    /\ sol = <<>>
    /\ params_solved = <<>>
    /\ result = <<>>
    /\ exc = NoExc
    /\ caller = Args(inp)

Init ==
    /\ inp \in Calls
    /\ InitLocals
    /\ readers = [r \in Readers |-> NewReader]
    /\ other = <<>>

Next ==
    \/ Flatten
    \/ HandleWeights
    \/ CheckBounds
    \/ CheckLogspace
    \/ CheckDims
    \/ CreateOpti
    \/ DeclareParams
    \/ EvalModel
    \/ ComputeError
    \/ SetObjective
    \/ ApplyFitType
    \/ Solve
    \/ Extract
    \/ Return

Spec == Init /\ [][Next]_vars

(* a fit and, once it has returned, the callers of the FittedModel *)

\* the fits whose FittedModel is used: a scalar sequence, one named series,
\* two named series, no series at all, an empty sequence
FMCalls ==
    LET b == <<Item("b", 0)>>
        mb == <<Item("m", 0), Item("b", 0)>>
    IN {Call("linear", Arr(Ramp(MaxN)), OneUp(MaxN), mb),
        Call("linear", Dict(<<Item("x1", Ramp(MaxN))>>), OneUp(MaxN), mb),
        Call("const", Arr(Ramp(MaxN)), OneUp(MaxN), b),
        Call("const", Dict(<<Item("x1", OnesList(MaxN)),
                             Item("x2", OnesList(MaxN))>>), OnesList(MaxN), b),
        Call("const", Dict(<<>>), OnesList(MaxN), b),
        Call("const", Arr(OnesList(0)), OnesList(1), b)}

InitFM == Init /\ inp \in FMCalls

NextFM ==
    \/ Next
    \/ \E r \in Readers :
          \/ FMCall(r)
          \/ FMInputNames(r)
          \/ FMInputDimensionality(r)
          \/ FMRepr(r)
          \/ PlotFitParse(r)
          \/ PlotFitDraw(r)

SpecFM == InitFM /\ [][NextFM]_vars

(* two invocations of fit_model running concurrently: one is running, the *)
(* locals of the other are set aside in other until it is switched to      *)

\* the locals of the running invocation, as a record
Running ==
    [inp |-> inp, pc |-> pc, x_data |-> x_data,
     x_data_is_dict |-> x_data_is_dict, y_data |-> y_data,
     n_datapoints |-> n_datapoints, weights |-> weights,
     relevant_inputs |-> relevant_inputs, opti |-> opti, params |-> params,
     y_model |-> y_model, error |-> error, modelCalls |-> modelCalls,
     sol |-> sol, params_solved |-> params_solved, result |-> result,
     exc |-> exc, caller |-> caller]

\* the locals of an invocation called with c that has executed nothing yet
Fresh(c) ==
    [inp |-> c, pc |-> "flatten", x_data |-> Arr(<<>>),
     x_data_is_dict |-> FALSE, y_data |-> <<>>, n_datapoints |-> 0,
     weights |-> <<>>, relevant_inputs |-> <<>>, opti |-> NoOpti,
     params |-> <<>>, y_model |-> <<>>, error |-> <<>>, modelCalls |-> 0,
     sol |-> <<>>, params_solved |-> <<>>, result |-> <<>>, exc |-> NoExc,
     caller |-> Args(c)]

\* the scheduler runs the other invocation: between any two statement
\* blocks of fit_model
Switch ==
    /\ other # <<>>
    /\ other' = <<Running>>
    /\ inp' = other[1].inp
    /\ pc' = other[1].pc
    /\ x_data' = other[1].x_data
    /\ x_data_is_dict' = other[1].x_data_is_dict
    /\ y_data' = other[1].y_data
    /\ n_datapoints' = other[1].n_datapoints
    /\ weights' = other[1].weights
    /\ relevant_inputs' = other[1].relevant_inputs
    /\ opti' = other[1].opti
    /\ params' = other[1].params
    /\ y_model' = other[1].y_model
    /\ error' = other[1].error
    /\ modelCalls' = other[1].modelCalls
    /\ sol' = other[1].sol
    /\ params_solved' = other[1].params_solved
    /\ result' = other[1].result
    /\ exc' = other[1].exc
    /\ caller' = other[1].caller
    /\ UNCHANGED readers

\* the fits run in pairs: every norm and fit type, with and without bounds,
\* and one call that fails validation
PairCalls ==
    LET b == <<Item("b", 0)>>
        mb == <<Item("m", 0), Item("b", 0)>>
    IN {Call("const", Arr(Ramp(MaxN)), OnesList(MaxN), b),
        [Call("linear", Arr(Ramp(MaxN)), OneUp(MaxN), mb)
            EXCEPT !.residual_norm_type = Chars("L1"),
                   !.fit_type = "upper bound",
                   !.parameter_bounds =
                        Bounds(<<Item("b", <<Num(1), None>>)>>)],
        [Call("const", Arr(Ramp(MaxN)), OneUp(MaxN), b)
            EXCEPT !.residual_norm_type = Chars("Linf"),
                   !.fit_type = "lower bound",
                   !.put_residuals_in_logspace = TRUE],
        [Call("const", Arr(Ramp(MaxN)), OnesList(MaxN), b)
            EXCEPT !.parameter_bounds =
                        Bounds(<<Item("q", <<Num(0), Num(MaxVal)>>)>>)]}

InitPair ==
    /\ inp \in PairCalls
    /\ InitLocals
    /\ readers = [r \in Readers |-> NewReader]
    /\ other \in {<<Fresh(c)>> : c \in PairCalls}

NextPair ==
    \/ Next
    \/ Switch

SpecPair == InitPair /\ [][NextPair]_vars

(* the caller of one invocation, writing to the data it passed once         *)
(* fit_model has returned or raised                                         *)

\* an array-like of the same shape as rows, every element v
Filled(rows, v) == [i \in DOMAIN rows |-> [j \in DOMAIN rows[i] |-> v]]

\* the caller's x_data with every element of every series set to v
FilledX(x, v) ==
    [x EXCEPT !.arr = Filled(x.arr, v),
              !.items = [i \in DOMAIN x.items |->
                            Item(x.items[i].k, Filled(x.items[i].v, v))]]

\* x_data as lines 244-252 leave it, for the caller's x
FlatX(x) ==
    IF x.isDict
    THEN [isDict |-> TRUE, arr |-> <<>>, items |-> FlattenItems(x.items)]
    ELSE [isDict |-> FALSE, arr |-> flatten(x.arr), items |-> <<>>]

\* the caller assigns v to every element of its x_data or of its y_data
\* (name), in place.  The FittedModel holds the arrays of lines 376-381: it
\* sees the write if and only if they share memory with the caller's.
CallerWrites ==
    /\ pc \in {"done", "raised"}
    /\ \E name \in {"x_data", "y_data"}, v \in 0..MaxVal :
          /\ caller' = IF name = "x_data"
                        THEN [caller EXCEPT !.x_data = FilledX(caller.x_data, v)]
                        ELSE [caller EXCEPT !.y_data = Filled(caller.y_data, v)]
          /\ caller' # caller
          /\ result' =
                IF result # <<>> /\ name \in Shared
                THEN <<[result[1] EXCEPT
                          !.x_data = FlatX(caller'.x_data),
                          !.y_data = flatten(caller'.y_data)]>>
                ELSE result
    /\ UNCHANGED <<inp, pc, x_data, x_data_is_dict, y_data, n_datapoints,
                   weights, relevant_inputs, opti, params, y_model, error,
                   modelCalls, sol, params_solved, exc>>
    /\ UNCHANGED <<readers, other>>

\* fits with supplied weights of floats and of integers, a fit of named
\* series with bounds, and a call that fails validation on a length
CallerCalls ==
    WeightCalls
    \cup {[Call("linear", Dict(<<Item("x1", Ramp(MaxN))>>), OneUp(MaxN),
                 <<Item("m", 0), Item("b", 0)>>)
              EXCEPT !.parameter_bounds =
                        Bounds(<<Item("b", <<Num(0), None>>)>>)],
           Call("const", Arr(OnesList(MaxN)), OnesList(1), <<Item("b", 0)>>)}

InitCaller ==
    /\ inp \in CallerCalls
    /\ InitLocals
    /\ readers = [r \in Readers |-> NewReader]
    /\ other = <<>>

NextCaller ==
    \/ Next
    \/ CallerWrites

SpecCaller == InitCaller /\ [][NextCaller]_vars

----------------------------------------------------------------------------
(* Properties *)

\* the positions of fit_model after the validation of lines 238-295
PastValidation ==
    {"opti", "declare", "model", "error", "objective", "fit_type", "solve",
     "extract", "return", "done"}

\* the lengths, after flattening, of y_data, of the weights (n when they
\* are defaulted) and of every x_data series of a call
SeriesLengths(c) ==
    LET n == Len(flatten(c.y_data))
    IN {n}
       \cup (IF c.weights.none THEN {n} ELSE {Len(flatten(c.weights.v))})
       \cup (IF c.x_data.isDict
             THEN {Len(flatten(c.x_data.items[i].v)) :
                      i \in DOMAIN c.x_data.items}
             ELSE {Len(flatten(c.x_data.arr))})

LengthsDiffer(c) == Cardinality(SeriesLengths(c)) > 1

\* C1: whenever two of y_data, weights and the x_data series differ in
\* length after flattening, fit_model raises in its validation: it never
\* gets past line 295 and returns no FittedModel.
C1_LengthMismatchRaises ==
    LengthsDiffer(inp) =>
        /\ pc \notin PastValidation
        /\ result = <<>>

\* C2 as stated: when residual_norm_type or fit_type is an unknown string,
\* the error is raised with no optimization environment created, no
\* variable declared, the Model not evaluated and no objective or
\* constraint registered.
C2_ConfigErrorBeforeAnyWork ==
    exc.at \in {"residual_norm_type", "fit_type"} =>
        /\ ~opti.created
        /\ opti.variables = <<>>
        /\ modelCalls = 0
        /\ opti.objective = <<>>
        /\ opti.constraints = <<>>

\* the spellings residual_norm_type accepts, and the fit types
IsNormName(s) ==
    \/ /\ Len(s) = 2
       /\ s[1] \in {"l", "L"}
       /\ s[2] \in {"1", "2"}
    \/ /\ Len(s) = 4
       /\ s[1] \in {"l", "L"}
       /\ s[2] \in {"i", "I"}
       /\ s[3] \in {"n", "N"}
       /\ s[4] \in {"f", "F"}

IsFitType(s) == s \in {"best", "upper bound", "lower bound"}

\* C2, amended: an unknown residual_norm_type or fit_type is raised as a
\* ValueError before the solver is invoked and with no FittedModel built,
\* but after the environment was created, one variable per parameter
\* declared and the Model evaluated once.  For an unknown norm no objective
\* and no constraint is registered yet; for an unknown fit type the
\* objective and the norm's auxiliary constraints are, and no constraint on
\* the prediction.  The solver is never invoked with an unknown string.
C2_ConfigErrorBeforeSolve ==
    /\ exc.at \in {"residual_norm_type", "fit_type"} =>
          /\ pc = "raised"
          /\ exc.type = "ValueError"
          /\ opti.created
          /\ Len(params) = Len(inp.parameter_guesses)
          /\ modelCalls = 1
          /\ opti.solves = 0
          /\ sol = <<>>
          /\ result = <<>>
    /\ exc.at = "residual_norm_type" =>
          /\ ~IsNormName(inp.residual_norm_type)
          /\ Len(opti.variables) = Len(inp.parameter_guesses)
          /\ opti.objective = <<>>
          /\ opti.constraints = <<>>
    /\ exc.at = "fit_type" =>
          /\ ~IsFitType(inp.fit_type)
          /\ IsNormName(inp.residual_norm_type)
          /\ opti.objective # <<>>
          /\ \A c \in DOMAIN opti.constraints :
                opti.constraints[c].lhs.tag = "var"
    /\ pc \in {"solve", "extract", "return", "done"} \/ opti.solves > 0 =>
          /\ IsNormName(inp.residual_norm_type)
          /\ IsFitType(inp.fit_type)

\* an unknown fit type raised after an L1 or Linf objective was registered
C2_Witness ==
    /\ pc = "raised"
    /\ exc.at = "fit_type"
    /\ Len(opti.constraints) = 2
    /\ modelCalls = 1

\* the four data-validation errors of lines 263-295
DataErrors == {"bounds_key", "bounds_pair", "logspace", "series_length"}

UnknownBoundsKey(c) ==
    \E i \in DOMAIN BoundsOrEmpty(c.parameter_bounds) :
        BoundsOrEmpty(c.parameter_bounds)[i].k
            \notin {c.parameter_guesses[j].k : j \in DOMAIN c.parameter_guesses}

MalformedBound(c) ==
    \E i \in DOMAIN BoundsOrEmpty(c.parameter_bounds) :
        Len(BoundsOrEmpty(c.parameter_bounds)[i].v) # 2

NonPositiveInLogspace(c) ==
    /\ c.put_residuals_in_logspace
    /\ \E i \in DOMAIN flatten(c.y_data) : flatten(c.y_data)[i] <= 0

RECURSIVE DenProduct(_)
DenProduct(w) == IF w = <<>> THEN 1 ELSE Head(w)[2] * DenProduct(Tail(w))

WeightedSquares(w, pt) ==
    SeqSum([i \in 1..n_datapoints |->
               (w[i][1] * (DenProduct(w) \div w[i][2]))
               * ExprValue(error[1], i, pt) * ExprValue(error[1], i, pt)])

\* C4: with the L2 norm the registered objective is the sum over the
\* datapoints of normalized weight times squared residual, at every value
\* of the parameters.
C4_L2ObjectiveIsWeighted ==
    (/\ pc \in {"fit_type", "solve", "extract", "return", "done"}
     /\ lower(inp.residual_norm_type) = <<"l", "2">>
     /\ ~LengthsDiffer(inp)
     /\ DenProduct(weights[1]) > 0) =>
        \A pa \in ParamAssignments(opti, params) :
            DenProduct(weights[1])
                * ObjectiveValue(opti.objective[1], Partial(opti, params, pa))
            = WeightedSquares(weights[1], Partial(opti, params, pa))

\* the sum of a sequence of fractions, as a reduced fraction
RECURSIVE FracSum(_)
FracSum(w) ==
    IF w = <<>> THEN <<0, 1>>
    ELSE LET r == FracSum(Tail(w))
         IN Quot(Head(w)[1] * r[2] + r[1] * Head(w)[2], Head(w)[2] * r[2])

\* weights the claim calls valid: omitted, or n >= 1 nonnegative numbers of
\* any element type with a positive sum
ValidWeights(c) ==
    /\ Len(flatten(c.y_data)) >= 1
    /\ \/ c.weights.none
       \/ /\ Len(flatten(c.weights.v)) = Len(flatten(c.y_data))
          /\ SeqSum(flatten(c.weights.v)) > 0

\* C5: for valid weights, once line 261 was passed the weights in use sum
\* to 1, they are those of any positive multiple of the supplied weights,
\* and omitted weights are 1/n each.
C5_WeightsNormalized ==
    (ValidWeights(inp) /\ pc \notin {"flatten", "weights"}) =>
        /\ weights # <<>>
        /\ FracSum(weights[1]) = <<1, 1>>
        /\ inp.weights.none =>
              \A i \in DOMAIN weights[1] : weights[1][i] = <<1, n_datapoints>>
        /\ ~inp.weights.none =>
              \A c \in 1..3 :
                 weights[1] = Normalized([i \in 1..n_datapoints |->
                                             c * flatten(inp.weights.v)[i]])


\* the residual at datapoint i for parameter values p (a dict of numbers)
Residual(p, i) ==
    IF inp.put_residuals_in_logspace
    THEN Log(Fmax(ModelAt(inp.model, x_data, p, i))) - Log(y_data[i])
    ELSE ModelAt(inp.model, x_data, p, i) - y_data[i]

Maximum(S) == CHOOSE v \in S : \A w \in S : v >= w

\* the norm of the residual that residual_norm_type names
ResidualNorm(p) ==
    LET r == [i \in 1..n_datapoints |-> Residual(p, i)]
        norm == lower(inp.residual_norm_type)
    IN IF norm = <<"l", "1">> THEN SeqSum([i \in DOMAIN r |-> Abs(r[i])])
       ELSE IF norm = <<"l", "2">> THEN SeqSum([i \in DOMAIN r |-> r[i] * r[i]])
       ELSE Maximum({0} \cup {Abs(r[i]) : i \in DOMAIN r})

\* C6 as stated: whenever the solve has returned, the objective (the norm
\* of the residual) at the solution is at most its value at the initial
\* guesses.
C6_NoWorseThanGuess ==
    sol # <<>> =>
        ResidualNorm(ParamsAt(params, sol[1].pt))
            <= ResidualNorm(inp.parameter_guesses)

\* the initial guesses satisfy the parameter bounds and the constraint of
\* fit_type
GuessWithinBounds ==
    LET bounds == BoundsOrEmpty(inp.parameter_bounds)
        guesses == inp.parameter_guesses
    IN \A j \in DOMAIN guesses : \A b \in DOMAIN bounds :
          bounds[b].k = guesses[j].k =>
             /\ bounds[b].v[1].none \/ guesses[j].v >= bounds[b].v[1].v
             /\ bounds[b].v[2].none \/ guesses[j].v <= bounds[b].v[2].v

GuessInEnvelope ==
    \A i \in 1..n_datapoints :
       LET pred == ModelAt(inp.model, x_data, inp.parameter_guesses, i)
       IN /\ inp.fit_type = "upper bound" => pred >= y_data[i]
          /\ inp.fit_type = "lower bound" => pred <= y_data[i]

\* C6, amended: when the initial guesses are feasible (within the parameter
\* bounds and satisfying the fit type's constraint at every datapoint) and
\* the solve returns a minimizer, the objective at the solution equals the
\* norm of the residual there and is at most the norm of the residual at
\* the initial guesses.
C6_NoWorseThanFeasibleGuess ==
    (sol # <<>> /\ GuessWithinBounds /\ GuessInEnvelope) =>
        /\ ObjectiveValue(opti.objective[1], sol[1].pt)
             = ResidualNorm(ParamsAt(params, sol[1].pt))
        /\ ResidualNorm(ParamsAt(params, sol[1].pt))
             <= ResidualNorm(inp.parameter_guesses)

\* a solve from a feasible guess that strictly improved the L2 norm
C6_Witness ==
    /\ pc = "done"
    /\ GuessWithinBounds /\ GuessInEnvelope
    /\ inp.fit_type = "upper bound"
    /\ ResidualNorm(ParamsAt(params, sol[1].pt))
         < ResidualNorm(inp.parameter_guesses)

\* the parameters a Model reads
Uses(model) == IF model = "linear" THEN {"m", "b"} ELSE {"b"}

\* some parameter the FittedModel's Model reads is NaN: so is its prediction
PredictionIsNaN(fm) ==
    \E j \in DOMAIN fm.parameters :
        fm.parameters[j].k \in Uses(fm.model) /\ fm.parameters[j].v.nan

\* FittedModel.__call__ at its own training data, element i
FittedAt(fm, i) ==
    ModelAt(fm.model, fm.x_data,
            [j \in DOMAIN fm.parameters |->
                Item(fm.parameters[j].k, fm.parameters[j].v.v)], i)

NoEnvelopeConstraint ==
    \A c \in DOMAIN opti.constraints : opti.constraints[c].lhs.tag = "var"

\* C7 as stated: every FittedModel returned for "upper bound" predicts at
\* least y_data at every training point, for "lower bound" at most y_data;
\* for "best" no constraint on the prediction is registered.
C7_EnvelopeHolds ==
    /\ result # <<>> =>
          \A i \in 1..Len(result[1].y_data) :
             /\ inp.fit_type = "upper bound" =>
                   /\ ~PredictionIsNaN(result[1])
                   /\ FittedAt(result[1], i) >= result[1].y_data[i]
             /\ inp.fit_type = "lower bound" =>
                   /\ ~PredictionIsNaN(result[1])
                   /\ FittedAt(result[1], i) <= result[1].y_data[i]
    /\ (inp.fit_type = "best" /\ pc \in {"solve", "extract", "return", "done"})
          => NoEnvelopeConstraint

\* C7, amended: every FittedModel returned for "upper bound" whose used
\* parameters were all retrieved (none stored as NaN) predicts at least
\* y_data at every training point, for "lower bound" at most y_data; for
\* "best" no constraint on the prediction is registered, for the two others
\* exactly one is.
C7_EnvelopeHoldsUnlessNaN ==
    /\ (result # <<>> /\ ~PredictionIsNaN(result[1])) =>
          \A i \in 1..Len(result[1].y_data) :
             /\ inp.fit_type = "upper bound" =>
                   FittedAt(result[1], i) >= result[1].y_data[i]
             /\ inp.fit_type = "lower bound" =>
                   FittedAt(result[1], i) <= result[1].y_data[i]
    /\ (inp.fit_type = "best" /\ pc \in {"solve", "extract", "return", "done"})
          => NoEnvelopeConstraint
    /\ (inp.fit_type \in {"upper bound", "lower bound"}
        /\ pc \in {"solve", "extract", "return", "done"})
          => Cardinality({c \in DOMAIN opti.constraints :
                             opti.constraints[c].lhs.tag # "var"}) = 1

\* an upper-bound fit in logspace returned, strictly above one datapoint
C7_Witness ==
    /\ pc = "done"
    /\ inp.fit_type = "upper bound"
    /\ inp.put_residuals_in_logspace
    /\ ~PredictionIsNaN(result[1])
    /\ \E i \in 1..Len(result[1].y_data) :
          FittedAt(result[1], i) > result[1].y_data[i]

\* the phases of an invocation
Unfit ==
    {"flatten", "weights", "check_bounds", "check_logspace", "check_dims",
     "opti", "declare", "model", "error", "objective", "fit_type", "solve"}

C8_Inv ==
    /\ opti.solves <= 1
    /\ opti.solves = 0 <=> pc \in Unfit \/ (pc = "raised" /\ exc.at # "solve")
    /\ result # <<>> =>
          /\ pc = "done"
          /\ opti.solves = 1
          /\ sol # <<>>
          /\ exc = NoExc
    /\ exc.at = "solve" =>
          /\ pc = "raised"
          /\ exc.type = "RuntimeError"
          /\ sol = <<>>
          /\ result = <<>>
          /\ params_solved = <<>>
    /\ \A h \in DOMAIN params :
          opti.variables[params[h].v].init = inp.parameter_guesses[h].v

C8_Step ==
    /\ pc \in {"done", "raised"} => UNCHANGED locals
    /\ opti'.solves # opti.solves =>
          /\ pc = "solve"
          /\ pc' \in {"extract", "raised"}
          /\ pc' = "raised" => exc'.at = "solve"
    /\ (pc \in Unfit /\ pc' \notin Unfit \cup {"raised"}) =>
          opti'.solves = opti.solves + 1
    /\ result' # result => pc = "return" /\ pc' = "done"

\* C8: an invocation goes Unfit -> Solving -> Fitted or Failed.  The solver
\* is invoked at most once; a FittedModel exists only after that solve
\* returned; a solve that fails leaves fit_model with the solver's
\* exception, no FittedModel, no second solve and the initial guesses as
\* they were; nothing happens after Fitted or Failed.
C8_SolveOnceThenTerminal == []C8_Inv /\ [][C8_Step]_vars

\* a failed solve
C8_Witness ==
    /\ pc = "raised"
    /\ exc.at = "solve"
    /\ opti.solves = 1

\* C9: after a successful solve, the parameters whose value cannot be
\* retrieved are stored as NaN, every other parameter holds the value the
\* solution reports, and fit_model returns a FittedModel with them without
\* raising.
C9_PartialExtraction ==
    /\ pc \in {"return", "done"} =>
          /\ Len(params_solved) = Len(params)
          /\ \A j \in DOMAIN params :
                /\ params_solved[j].k = params[j].k
                /\ params[j].v \in sol[1].unreadable
                      => params_solved[j].v = NaN
                /\ params[j].v \notin sol[1].unreadable
                      => params_solved[j].v = Float(sol[1].pt[params[j].v][1])
    /\ sol # <<>> => pc \in {"extract", "return", "done"} /\ exc = NoExc
    /\ pc = "done" =>
          /\ result # <<>>
          /\ result[1].parameters = params_solved

\* a FittedModel returned with one parameter NaN and the other solved
C9_Witness ==
    /\ pc = "done"
    /\ Len(params) = 2
    /\ Cardinality(sol[1].unreadable) = 1
    /\ \E j \in DOMAIN result[1].parameters : result[1].parameters[j].v = NaN
    /\ \E j \in DOMAIN result[1].parameters : result[1].parameters[j].v # NaN

\* C10: once the bounds check was passed, a call whose parameter_bounds has
\* a key that is not in parameter_guesses, or a value that is not a pair,
\* has raised a ValueError from that check; bounds on a subset of the
\* parameters, with None on either side, raise no such error.
C10_BoundsValidated ==
    /\ ((UnknownBoundsKey(inp) \/ MalformedBound(inp))
        /\ pc \notin {"flatten", "weights", "check_bounds"}) =>
          /\ pc = "raised"
          /\ exc.type = "ValueError"
          /\ exc.at \in {"bounds_key", "bounds_pair"}
    /\ ~(UnknownBoundsKey(inp) \/ MalformedBound(inp)) =>
          exc.at \notin {"bounds_key", "bounds_pair"}

\* C11: once the logspace check was passed, a call that asks for residuals
\* in logspace with a zero or negative y_data value has raised a validation
\* error (a ValueError of lines 263-295); and a call that does not ask for
\* logspace never raises the positivity error.
C11_LogspaceValidated ==
    /\ (NonPositiveInLogspace(inp)
        /\ pc \notin {"flatten", "weights", "check_bounds", "check_logspace"})
          => /\ pc = "raised"
             /\ exc.type = "ValueError"
             /\ exc.at \in DataErrors
    /\ ~inp.put_residuals_in_logspace => exc.at # "logspace"

\* what a Model returns when called on the decision variables: nothing, the
\* scalar p["b"], or an array with one entry per datapoint
ReturnShape(model) ==
    CASE model = "none" -> "None"
      [] model = "const" -> "scalar"
      [] OTHER -> "array"

\* C12 as stated: when the Model returns None or anything that is not an
\* array of length n, fit_model has raised a TypeError once the Model was
\* called (on data of equal lengths n >= 1), with no objective or constraint
\* registered and no solve.
C12_IllFormedRaises ==
    (/\ ReturnShape(inp.model) # "array"
     /\ modelCalls = 1
     /\ n_datapoints >= 1
     /\ ~LengthsDiffer(inp)) =>
        /\ pc = "raised"
        /\ exc.type = "TypeError"
        /\ opti.objective = <<>>
        /\ opti.constraints = <<>>
        /\ opti.solves = 0

\* C12, amended: when the Model returns None, fit_model raises a TypeError
\* right after the call, with the environment created and the parameters
\* declared but no residual, objective or constraint built and no solve; no
\* other result of the Model raises this error (a scalar result is accepted
\* and fitted).
C12_NoneRaisesTypeError ==
    /\ exc.at = "model_none" <=> (inp.model = "none" /\ modelCalls = 1)
    /\ exc.at = "model_none" =>
          /\ pc = "raised"
          /\ exc.type = "TypeError"
          /\ opti.created
          /\ Len(opti.variables) = Len(inp.parameter_guesses)
          /\ y_model = <<>>
          /\ error = <<>>
          /\ opti.objective = <<>>
          /\ opti.constraints = <<>>
          /\ opti.solves = 0
          /\ sol = <<>>
          /\ result = <<>>
    /\ inp.model = "none" =>
          pc \notin {"error", "objective", "fit_type", "solve", "extract",
                     "return", "done"}

\* a Model that returned None, after the parameter was declared
C12_Witness ==
    /\ pc = "raised"
    /\ exc.at = "model_none"
    /\ Len(opti.variables) = 1
    /\ modelCalls = 1

\* the canonical spelling a string is an upper/lower-case variant of
Canonical(s) ==
    IF Len(s) = 2 /\ s[1] \in {"l", "L"} /\ s[2] = "1" THEN "L1"
    ELSE IF Len(s) = 2 /\ s[1] \in {"l", "L"} /\ s[2] = "2" THEN "L2"
    ELSE IF /\ Len(s) = 4
            /\ s[1] \in {"l", "L"}
            /\ s[2] \in {"i", "I"}
            /\ s[3] \in {"n", "N"}
            /\ s[4] \in {"f", "F"} THEN "Linf"
    ELSE "unknown"

\* what each norm adds to an environment that holds k parameters, for n
\* datapoints and the residual err: auxiliary variables, constraints and the
\* objective
NormProblem(name, k, n, err) ==
    LET aux == Expr("var", k + 1)
        both == <<Geq(aux, err), Geq(aux, Neg(err))>>
    IN CASE name = "L1" ->
              [aux |-> <<[init |-> 0, n_vars |-> n, lb |-> None, ub |-> None]>>,
               constraints |-> both,
               objective |-> <<Objective("sum1", aux)>>]
         [] name = "L2" ->
              [aux |-> <<>>,
               constraints |-> <<>>,
               objective |-> <<Objective("sum1_sq", err)>>]
         [] name = "Linf" ->
              [aux |-> <<[init |-> 0, n_vars |-> 1, lb |-> None, ub |-> None]>>,
               constraints |-> both,
               objective |-> <<Objective("id", aux)>>]

\* C13: once the norm was dispatched on, every upper/lower-case variant of
\* "L1", "L2" and "Linf" has added to the environment exactly the auxiliary
\* variables, constraints and objective of the canonical spelling, and every
\* other string has raised the configuration error (a ValueError).
C13_NormCaseInsensitive ==
    /\ (Canonical(inp.residual_norm_type) # "unknown"
        /\ error # <<>> /\ pc # "objective") =>
          LET k == Len(inp.parameter_guesses)
              np == NormProblem(Canonical(inp.residual_norm_type), k,
                                n_datapoints, error[1])
          IN /\ pc # "raised" \/ exc.at # "residual_norm_type"
             /\ SubSeq(opti.variables, k + 1, Len(opti.variables)) = np.aux
             /\ Len(opti.constraints) >= Len(np.constraints)
             /\ SubSeq(opti.constraints, 1, Len(np.constraints)) = np.constraints
             /\ pc = "fit_type" => opti.constraints = np.constraints
             /\ opti.objective = np.objective
    /\ (Canonical(inp.residual_norm_type) = "unknown"
        /\ error # <<>> /\ pc # "objective") =>
          /\ pc = "raised"
          /\ exc = Exc("ValueError", "residual_norm_type")
          /\ opti.objective = <<>>

\* "LINF" dispatched to the L-infinity problem
C13_Witness ==
    /\ pc = "fit_type"
    /\ inp.residual_norm_type = <<"L", "I", "N", "F">>
    /\ Len(opti.constraints) = 2
    /\ opti.objective = <<Objective("id", Expr("var", Len(opti.variables)))>>

C15_Inv ==
    /\ \A r \in Readers :
          readers[r].op = "call" =>
             /\ readers[r].exc = NoExc
             /\ readers[r].out =
                   Returned("value",
                            ModelValue(inp.model, readers[r].arg, params_solved))
    /\ \A r \in Readers, q \in Readers :
          (/\ readers[r].op = "call"
           /\ readers[q].op = "call"
           /\ readers[r].arg = readers[q].arg) =>
              readers[r].out = readers[q].out
    /\ (\E r \in Readers : readers[r].op # "") =>
          /\ opti.solves = 1
          /\ modelCalls = 1

C15_Step ==
    readers' # readers =>
        /\ opti' = opti
        /\ sol' = sol
        /\ params_solved' = params_solved

\* C15: what evaluating a FittedModel at x returned is the Model that was
\* handed to fit_model applied to x and the parameters fit_model solved for
\* (NaN where a parameter the Model reads is NaN); two evaluations at the
\* same x returned the same; and no step of a caller touches the
\* environment, its solve count or the solution.
C15_CallIsPure == []C15_Inv /\ [][C15_Step]_vars

\* the linear fit evaluated away from its training data, by two callers
C15_Witness ==
    /\ inp.model = "linear"
    /\ \A r \in Readers :
          /\ readers[r].op = "call"
          /\ readers[r].arg # result[1].x_data
          /\ readers[r].out.v[1] # NaN

\* the names of the x_data series of a call, in the order given
SeriesNames(c) == [i \in DOMAIN c.x_data.items |-> c.x_data.items[i].k]

\* C16: for the FittedModel of a fit whose x_data was a named mapping,
\* input_names() returned the list of its series names and
\* input_dimensionality() the number of distinct names; for x_data given as
\* a sequence they returned None and 1; repr reports the same two.
C16_NamesAndDimensionality ==
    \A r \in Readers :
       /\ readers[r].op = "input_names" =>
             /\ readers[r].exc = NoExc
             /\ inp.x_data.isDict =>
                   readers[r].out =
                      Returned("names", [none |-> FALSE, v |-> SeriesNames(inp)])
             /\ ~inp.x_data.isDict => readers[r].out = Returned("names", None)
       /\ readers[r].op = "input_dimensionality" =>
             /\ readers[r].exc = NoExc
             /\ inp.x_data.isDict =>
                   readers[r].out =
                      Returned("int",
                               Cardinality({SeriesNames(inp)[i] :
                                               i \in DOMAIN SeriesNames(inp)}))
             /\ ~inp.x_data.isDict => readers[r].out = Returned("int", 1)
       /\ readers[r].op = "repr" =>
             readers[r].out.v.dimensionality =
                IF inp.x_data.isDict THEN Len(SeriesNames(inp)) ELSE 1

\* the names and the dimensionality of a two-series fit both asked for
C16_Witness ==
    /\ Len(inp.x_data.items) = 2
    /\ readers[1].op = "input_names"
    /\ readers[1].out.v.v = <<"x1", "x2">>
    /\ readers[2].op = "input_dimensionality"
    /\ readers[2].out.v = 2

\* the environment an invocation called with c assembles when it runs
\* alone: a fresh environment with one variable per parameter guess, then
\* what the norm adds, then the constraint of the fit type
LoneProblem(c) ==
    LET k == Len(c.parameter_guesses)
        declared == DeclareLoop(NewOpti, <<>>, c.parameter_guesses,
                                BoundsOrEmpty(c.parameter_bounds))[1]
        err == IF c.put_residuals_in_logspace
               THEN Expr("log(y_model) - log(y_data)", 0)
               ELSE Expr("y_model - y_data", 0)
        ym == IF c.put_residuals_in_logspace
              THEN Expr("fmax(y_model)", 0) ELSE Expr("y_model", 0)
        np == NormProblem(Canonical(c.residual_norm_type), k,
                          Len(flatten(c.y_data)), err)
    IN [created |-> TRUE,
        variables |-> declared.variables \o np.aux,
        constraints |-> np.constraints \o FitTypeConstraints(c.fit_type, ym),
        objective |-> np.objective,
        solves |-> 0]

\* C17: with two invocations interleaved at every statement block, the
\* running invocation starts from an environment of its own with nothing
\* registered; the problem it hands to the solver is the one it assembles
\* when it runs alone, whatever the other invocation has registered; its
\* variable handles are handles of its own environment; its solution is a
\* solution of that problem; and it fails validation only for its own
\* arguments.
C17_NoSharedState ==
    /\ pc = "declare" => opti = NewOpti
    /\ pc = "model" =>
          opti.variables =
             DeclareLoop(NewOpti, <<>>, inp.parameter_guesses,
                         BoundsOrEmpty(inp.parameter_bounds))[1].variables
    /\ \A j \in DOMAIN params : params[j].v \in 1..Len(opti.variables)
    /\ (pc \in {"solve", "extract", "return", "done"} \/ exc.at = "solve") =>
          [opti EXCEPT !.solves = 0] = LoneProblem(inp)
    /\ sol # <<>> =>
          /\ sol[1].pt \in Solutions(LoneProblem(inp), params)
          /\ opti.solves = 1
    /\ pc = "done" =>
          result[1] = NewFittedModel(inp.model,
                                     SolvedParams(params, sol[1]),
                                     Arr(flatten(inp.x_data.arr)),
                                     flatten(inp.y_data))
    /\ exc.at \in DataErrors =>
          \/ UnknownBoundsKey(inp)
          \/ MalformedBound(inp)
          \/ NonPositiveInLogspace(inp)
          \/ LengthsDiffer(inp)

\* two different fits both in the middle of assembling their problems, the
\* running one after the other has registered variables and constraints
C17_Witness ==
    /\ other # <<>>
    /\ inp # other[1].inp
    /\ pc = "fit_type"
    /\ other[1].pc = "fit_type"
    /\ opti.constraints # <<>>
    /\ other[1].opti.constraints # <<>>

\* a call as C18 describes it: the linear Model on a scalar sequence, guesses
\* m = 0 and b = 0, L2 norm, fit type "best", no weights, no bounds, no
\* logspace
LineFit(c) ==
    /\ c.model = "linear"
    /\ ~c.x_data.isDict
    /\ c.parameter_guesses = <<Item("m", 0), Item("b", 0)>>
    /\ c.parameter_bounds.none
    /\ c.weights.none
    /\ Canonical(c.residual_norm_type) = "L2"
    /\ c.fit_type = "best"
    /\ ~c.put_residuals_in_logspace
    /\ Len(flatten(c.x_data.arr)) = Len(flatten(c.y_data))
    /\ Len(flatten(c.y_data)) >= 1

\* the data of a call are noiseless data of the line y = m0 x + b0
Generates(m0, b0, c) ==
    \A i \in DOMAIN flatten(c.y_data) :
        flatten(c.y_data)[i] = m0 * flatten(c.x_data.arr)[i] + b0

Line(m0, b0) == <<Item("m", Float(m0)), Item("b", Float(b0))>>

\* C18 as stated: the FittedModel returned for noiseless data of a line
\* y = m0 x + b0 (its parameters all retrieved) holds m = m0 and b = b0.
C18_RecoversLine ==
    (LineFit(inp) /\ pc = "done" /\ sol[1].unreadable = {}) =>
        \A m0 \in ParamVals, b0 \in ParamVals :
            Generates(m0, b0, inp) => result[1].parameters = Line(m0, b0)

\* the x_data of a call take at least two different values
TwoAbscissae(c) ==
    \E i \in DOMAIN flatten(c.x_data.arr), j \in DOMAIN flatten(c.x_data.arr) :
        flatten(c.x_data.arr)[i] # flatten(c.x_data.arr)[j]

\* C18, amended: when x_data takes at least two different values, the solve
\* converges and every parameter is retrieved, the FittedModel returned for
\* noiseless data of a line y = m0 x + b0 holds m = m0 and b = b0; for
\* x_data = [0,1,2,3,4] and y_data = [1,3,5,7,9] it holds m = 2 and b = 1.
C18_RecoversIdentifiableLine ==
    /\ (LineFit(inp) /\ TwoAbscissae(inp) /\ pc = "done"
        /\ sol[1].unreadable = {}) =>
          \A m0 \in ParamVals, b0 \in ParamVals :
              Generates(m0, b0, inp) => result[1].parameters = Line(m0, b0)
    /\ (/\ inp.x_data = Arr(<<<<0, 1, 2, 3, 4>>>>)
        /\ inp.y_data = <<<<1, 3, 5, 7, 9>>>>
        /\ LineFit(inp)
        /\ pc = "done"
        /\ sol[1].unreadable = {}) =>
          result[1].parameters = Line(2, 1)

\* the fit to y = 2 x + 1 returned
C18_Witness ==
    /\ inp.y_data = <<<<1, 3, 5, 7, 9>>>>
    /\ LineFit(inp)
    /\ pc = "done"
    /\ result[1].parameters = Line(2, 1)

\* the FittedModel of a call has input dimensionality 1: x_data was a
\* sequence, or a mapping with exactly one series
OneInput(c) == ~c.x_data.isDict \/ Len(c.x_data.items) = 1

\* C19: for the FittedModel of a successful fit of data of equal lengths,
\* with input dimensionality 1, plot_fit() raises nothing, and the curve it
\* draws is the FittedModel evaluated at the ends of the range of x_data.
C19_PlotFitCompletes ==
    \A r \in Readers :
       (readers[r].op = "plot_fit" /\ OneInput(inp) /\ ~LengthsDiffer(inp)) =>
          /\ readers[r].exc = NoExc
          /\ readers[r].pc = "plot" =>
                /\ readers[r].out =
                      Returned("value",
                               ModelValue(inp.model, readers[r].arg,
                                          params_solved))
                /\ opti.solves = 1

\* the bound a call supplies for a parameter name, <<None, None>> when it
\* supplies none
SuppliedBound(c, name) ==
    LET bounds == BoundsOrEmpty(c.parameter_bounds)
    IN IF \E b \in DOMAIN bounds : bounds[b].k = name
       THEN (bounds[CHOOSE b \in DOMAIN bounds : bounds[b].k = name]).v
       ELSE <<None, None>>

\* C20: once the parameters are declared, the environment holds exactly one
\* scalar variable per key of parameter_guesses, initialized at that key's
\* guess and bounded by the pair parameter_bounds supplies for the key (None
\* for an unbounded side, both sides None without a pair), params maps every
\* key to its own variable, and the only other variable is the one the L1 or
\* Linf norm adds; the parameters of the returned FittedModel have the keys
\* of parameter_guesses, in their order.
C20_OneVariablePerParameter ==
    /\ (opti.created /\ pc # "declare") =>
          LET guesses == inp.parameter_guesses
          IN /\ Len(params) = Len(guesses)
             /\ Len(opti.variables) \in {Len(guesses), Len(guesses) + 1}
             /\ \A j \in DOMAIN guesses :
                   /\ params[j].k = guesses[j].k
                   /\ params[j].v = j
                   /\ opti.variables[j] =
                         [init |-> guesses[j].v, n_vars |-> 1,
                          lb |-> SuppliedBound(inp, guesses[j].k)[1],
                          ub |-> SuppliedBound(inp, guesses[j].k)[2]]
             /\ \A h \in DOMAIN opti.variables :
                   h > Len(guesses) =>
                      /\ Canonical(inp.residual_norm_type) \in {"L1", "Linf"}
                      /\ opti.variables[h].init = 0
    /\ result # <<>> =>
          /\ Len(result[1].parameters) = Len(inp.parameter_guesses)
          /\ \A j \in DOMAIN inp.parameter_guesses :
                result[1].parameters[j].k = inp.parameter_guesses[j].k

\* a fit of two parameters returned, one of them bounded on one side only
C20_Witness ==
    /\ pc = "done"
    /\ Len(result[1].parameters) = 2
    /\ opti.variables[1].lb = None /\ opti.variables[1].ub = None
    /\ opti.variables[2].lb = Num(1) /\ opti.variables[2].ub = None

\* the statement blocks of fit_model, in the order of the source
Steps ==
    <<"flatten", "weights", "check_bounds", "check_logspace", "check_dims",
      "opti", "declare", "model", "error", "objective", "fit_type", "solve",
      "extract", "return", "done">>

Rank(p) == CHOOSE i \in DOMAIN Steps : Steps[i] = p

\* what has happened by each position of a run that has not raised
C21_Inv ==
    /\ pc \in {Steps[i] : i \in DOMAIN Steps} =>
          /\ opti.created <=> Rank(pc) > Rank("opti")
          /\ Len(params) = (IF Rank(pc) > Rank("declare")
                            THEN Len(inp.parameter_guesses) ELSE 0)
          /\ modelCalls = (IF Rank(pc) > Rank("model") THEN 1 ELSE 0)
          /\ Len(opti.objective) = (IF Rank(pc) > Rank("objective") THEN 1 ELSE 0)
          /\ Rank(pc) <= Rank("objective") => opti.constraints = <<>>
          /\ opti.solves = (IF Rank(pc) > Rank("solve") THEN 1 ELSE 0)
          /\ sol # <<>> <=> Rank(pc) > Rank("solve")
          /\ Len(params_solved) = (IF Rank(pc) > Rank("extract")
                                   THEN Len(inp.parameter_guesses) ELSE 0)
          /\ result # <<>> <=> pc = "done"
    /\ modelCalls <= 1
    /\ Len(opti.objective) <= 1
    /\ opti.solves <= 1

C21_Step ==
    /\ pc' # pc =>
          \/ pc' = "raised"
          \/ Rank(pc') = Rank(pc) + 1
    /\ locals' # locals => pc' # pc
    /\ params' # params => pc = "declare"
    /\ modelCalls' # modelCalls => pc = "model"
    /\ opti'.objective # opti.objective => pc = "objective"
    /\ opti'.variables # opti.variables => pc \in {"declare", "objective"}
    /\ opti'.constraints # opti.constraints => pc \in {"objective", "fit_type"}
    /\ opti'.solves # opti.solves => pc = "solve"
    /\ params_solved' # params_solved => pc = "extract"
    /\ result' # result => pc = "return"

\* C21: an invocation passes through normalization and validation, the
\* declaration of the parameters, the evaluation of the Model, the objective,
\* the fit type's constraints, the solve, the extraction and the
\* construction of the FittedModel in this order, every step advancing to
\* the next or raising; by the time it returns each has happened once: the
\* Model was called once, the objective set once, the solver invoked once.
C21_StepsInOrder == []C21_Inv /\ [][C21_Step]_vars

\* a successful upper-bound L1 fit: every step added something
C21_Witness ==
    /\ pc = "done"
    /\ Canonical(inp.residual_norm_type) = "L1"
    /\ inp.fit_type = "upper bound"
    /\ Len(opti.constraints) = 3
    /\ modelCalls = 1

\* the values tried for an auxiliary variable when the parameters are pa:
\* the magnitudes of the residuals there, their negatives and 0
SignedAuxVals(pa) ==
    LET mags == {Abs(ExprValue(error[1], i, Partial(opti, params, pa))) :
                    i \in 1..n_datapoints}
    IN {0} \cup mags \cup {-v : v \in mags}

\* the points that give the parameters pa and the auxiliary variable h, of
\* n entries, every vector of those values
AuxPoints(pa, h, n) ==
    {[Partial(opti, params, pa) EXCEPT ![h] = vec] :
        vec \in [1..n -> SignedAuxVals(pa)]}

\* the points among S that satisfy the constraints the norm registered
NormFeasible(S) ==
    {pt \in S : Holds(opti.constraints[1], pt) /\ Holds(opti.constraints[2], pt)}

\* C22: with the L1 norm the objective step adds one auxiliary variable of
\* n entries, constrained to be >= error and >= -error entry by entry, and
\* minimizes its sum; at every value of the parameters every feasible value
\* of an auxiliary entry is nonnegative, and the least feasible objective is
\* the sum of the magnitudes of the residuals.
C22_L1Epigraph ==
    (Canonical(inp.residual_norm_type) = "L1" /\ pc = "fit_type") =>
        LET h == Len(inp.parameter_guesses) + 1
            abs_error == Expr("var", h)
        IN /\ Len(opti.variables) = h
           /\ opti.variables[h].n_vars = n_datapoints
           /\ opti.constraints = <<Geq(abs_error, error[1]),
                                   Geq(abs_error, Neg(error[1]))>>
           /\ opti.objective = <<Objective("sum1", abs_error)>>
           /\ \A pa \in ParamAssignments(opti, params) :
                 LET feas == NormFeasible(AuxPoints(pa, h, n_datapoints))
                     r == [i \in 1..n_datapoints |->
                              ExprValue(error[1], i, Partial(opti, params, pa))]
                 IN /\ feas # {}
                    /\ \A pt \in feas : \A i \in 1..n_datapoints : pt[h][i] >= 0
                    /\ Minimum({ObjectiveValue(opti.objective[1], pt) :
                                   pt \in feas})
                         = SeqSum([i \in 1..n_datapoints |-> Abs(r[i])])

\* an L1 problem registered for a line that misses both of two datapoints
\* at some value of the parameters
C22_Witness ==
    /\ Canonical(inp.residual_norm_type) = "L1"
    /\ pc = "fit_type"
    /\ n_datapoints = 2
    /\ opti.variables[Len(opti.variables)].n_vars = 2
    /\ \E pa \in ParamAssignments(opti, params) :
          /\ ExprValue(error[1], 1, Partial(opti, params, pa)) > 0
          /\ ExprValue(error[1], 2, Partial(opti, params, pa)) < 0

\* C23: with the Linf norm the objective step adds one scalar auxiliary
\* variable, constrained to be >= error and >= -error at every datapoint,
\* and minimizes it; at every value of the parameters (with at least one
\* datapoint) the least feasible objective is the largest magnitude of a
\* residual.
C23_LinfEpigraph ==
    (Canonical(inp.residual_norm_type) = "Linf" /\ pc = "fit_type") =>
        LET h == Len(inp.parameter_guesses) + 1
            linf_value == Expr("var", h)
        IN /\ Len(opti.variables) = h
           /\ opti.variables[h].n_vars = 1
           /\ opti.constraints = <<Geq(linf_value, error[1]),
                                   Geq(linf_value, Neg(error[1]))>>
           /\ opti.objective = <<Objective("id", linf_value)>>
           /\ n_datapoints >= 1 =>
                 \A pa \in ParamAssignments(opti, params) :
                    LET feas == NormFeasible(AuxPoints(pa, h, 1))
                        r == [i \in 1..n_datapoints |->
                                 ExprValue(error[1], i,
                                           Partial(opti, params, pa))]
                    IN /\ feas # {}
                       /\ Minimum({ObjectiveValue(opti.objective[1], pt) :
                                      pt \in feas})
                            = Maximum({Abs(r[i]) : i \in 1..n_datapoints})

\* an Linf problem registered for a line whose two residuals differ in
\* magnitude and sign at some value of the parameters
C23_Witness ==
    /\ Canonical(inp.residual_norm_type) = "Linf"
    /\ pc = "fit_type"
    /\ n_datapoints = 2
    /\ opti.variables[Len(opti.variables)].n_vars = 1
    /\ \E pa \in ParamAssignments(opti, params) :
          /\ ExprValue(error[1], 1, Partial(opti, params, pa)) > 0
          /\ ExprValue(error[1], 2, Partial(opti, params, pa)) < 0
          /\ ExprValue(error[1], 1, Partial(opti, params, pa))
               # -ExprValue(error[1], 2, Partial(opti, params, pa))

\* C24: the scalar-vs-named decision about x_data is the same at every stage
\* of one invocation: once the series are collected for the length check,
\* they are the ones the branch chosen when flattening calls for (the named
\* series for a mapping, one series "x_data" for a scalar sequence), and
\* input_names() of the returned FittedModel is None exactly when flattening
\* took the scalar branch.
C24_DiscriminatorAgrees ==
    /\ relevant_inputs # <<>> =>
          /\ x_data_is_dict = ~UpdateRaises(x_data)
          /\ relevant_inputs =
                LET base == <<Item("y_data", y_data), Item("weights", weights[1])>>
                IN IF x_data_is_dict THEN DictUpdate(base, x_data.items)
                   ELSE DictUpdate(base, <<Item("x_data", x_data.arr)>>)
    /\ \A r \in Readers :
          readers[r].op = "input_names" =>
              (readers[r].out.v.none = ~x_data_is_dict)

\* C25: fit_model leaves the caller's x_data, y_data, weights,
\* parameter_guesses and parameter_bounds as they were passed, whether it
\* returns or raises (the weights it normalizes are its own copy); the
\* returned FittedModel stores the flattened data of the call, and no later
\* write of the caller to its data changes the FittedModel.
C25_Inv ==
    /\ pc \notin {"done", "raised"} => caller = Args(inp)
    /\ result # <<>> =>
          /\ result[1].x_data = FlatX(inp.x_data)
          /\ result[1].y_data = flatten(inp.y_data)

C25_Step ==
    /\ pc \notin {"done", "raised"} => caller' = caller
    /\ result # <<>> => result' = result

C25_CallerDataUntouched == []C25_Inv /\ [][C25_Step]_vars

\* fit_model has returned a fit with supplied weights that it had to
\* normalize, and the caller has since overwritten its x_data and its y_data
C25_Witness ==
    /\ pc = "done"
    /\ result # <<>>
    /\ ~inp.weights.none
    /\ weights # <<>>
    /\ weights[1] # caller.weights.v
    /\ caller.x_data # inp.x_data
    /\ caller.y_data # inp.y_data

====
